---- MODULE Spec2Model ----
(***************************************************************************)
(* gh-space-shooter: the fixed-timestep simulation (GameState and its      *)
(* drawables), the action policies, the timeline sampler (Animator) and    *)
(* the slot multiplexer of the SVG track compressor.                       *)
(*                                                                         *)
(* Arithmetic.  The code computes with floats; the model is exact, in      *)
(* fixed point.  With delta_time = 1/fps every length is a multiple of     *)
(* 1/(2*fps) cell and every duration a multiple of 1/(100*fps) second:     *)
(*   - a length of c cells is the integer c * Cell(fps), Cell(fps) = 2*fps *)
(*   - a speed of v cells per second moves 2*v length units per tick       *)
(*   - a duration of s seconds is the integer 100 * s * fps, and one tick  *)
(*     (delta_time) lasts TICK = 100 duration units.                       *)
(* For fps a power of two every length of the code is a dyadic rational    *)
(* and float arithmetic is exact, so the model is the code at those fps.   *)
(***************************************************************************)
EXTENDS Integers, Sequences, FiniteSets, TLC

VARIABLES
    inputs,        \* Animator.__init__ arguments: contribution_data, strategy, fps, max_frames, seed
    game_state,    \* the GameState the sampler drives
    animator,      \* position of _iter_state_timeline/_frame_steps and of the policy generator
    twin,          \* a second, independently constructed run (inputs, game_state, animator)
    slot_in,       \* _tl_build_object_slot_tracks arguments: frame_maps, reuse_slots_within_frame
    slot_st,       \* its locals: frame_index, slot_tracks, active_slots, free_slots
    call,          \* the arguments of a call of one of the output functions
    ret            \* what the call returned or raised

vars == <<inputs, game_state, animator, twin, slot_in, slot_st, call, ret>>

(***************************************************************************)
(* Bounds of the model.                                                    *)
(***************************************************************************)
MaxFps == 2            \* fps ranges over 1..MaxFps
NumStars == 1          \* stars of the starfield (the code creates 100)
MaxFrameCap == 2       \* max_frames ranges over None and 0..MaxFrameCap
RngModulus == 16       \* size of the state space of the model's random generator
MaxSlotFrames == 3     \* frame_maps has at most this many frames
MaxPoolIds == 3        \* object ids of a frame map are taken from the first MaxPoolIds ids
MaxTrackLen == 3       \* a sample track has at most this many samples
MaxFrames == 2         \* encode is given at most this many frames
MaxDimension == 2      \* frame widths and heights, from 1
MaxKeptFrames == 4     \* a kept timeline has at most this many frames
MaxCurveLen == 10      \* a curve has at most this many samples
MaxSlotTrackLen == 4   \* a bullet slot track has at most this many frames
MaxAliases == 1000     \* a document has at most this many repeated values
CooldownFps == 6       \* a frame rate whose tick is shorter than SHIP_SHOOT_COOLDOWN
MaxElements == 3       \* a small document has at most this many elements
MaxGroups == 21        \* a large document has at most this many groups of values
MaxFrameDuration == 2  \* frame_duration handed to encode, from 0
MaxTimeStep == 2       \* consecutive sample times are at most this far apart
MaxColumn == 51        \* enemies stand in the columns 0, 1, 2 and this one
MaxRow == 1            \* enemies stand in the rows 0 to this one

(***************************************************************************)
(* constants.py, in model units (see the header).                          *)
(***************************************************************************)
NUM_WEEKS == 52
NUM_DAYS == 7
GAME_GRID_WIDTH == NUM_WEEKS
SHIP_POSITION_Y == NUM_DAYS + 3
SHIP_SPEED == 25              \* 12.5 cells/s
BULLET_SPEED == 15            \* 7.5 cells/s
BOSS_MOVE_SPEED == 1          \* 0.5 cells/s
POWER_UP_SPEED == 2           \* 1.0 cells/s
STAR_SPEED_MAX == 5           \* 2.5 cells/s
SHIP_SHOOT_COOLDOWN == 20     \* 0.2 s
BOSS_SHOOT_INTERVAL == 150    \* 1.5 s
SHIP_MAX_HEALTH == 3
RAPID_FIRE_DURATION == 500    \* 5.0 s
EXPLOSION_DURATION_LARGE == 40   \* 0.4 s
EXPLOSION_DURATION_SMALL == 12   \* 0.12 s
OFFSCREEN_REMOVE_Y == 0 - 10     \* bullet.py: OFFSCREEN_REMOVE_Y = -10.0
TICK == 100                      \* delta_time, in duration units
None == 0 - 1                    \* Python's None, for max_frames

Cell(fps) == 2 * fps

(***************************************************************************)
(* Sequence helpers (Python list operations).                              *)
(***************************************************************************)
RemoveAt(s, i) == [k \in 1..(Len(s) - 1) |-> IF k < i THEN s[k] ELSE s[k + 1]]

\* index of the object with identity uid in list s, 0 when absent
IndexOf(s, uid) ==
    IF \E k \in 1..Len(s) : s[k].uid = uid
    THEN CHOOSE k \in 1..Len(s) : s[k].uid = uid
    ELSE 0

\* list.remove(obj) for an object that is in the list
ListRemove(s, uid) == RemoveAt(s, IndexOf(s, uid))

Min(a, b) == IF a < b THEN a ELSE b
Max(a, b) == IF a > b THEN a ELSE b
Abs(a) == IF a < 0 THEN 0 - a ELSE a

(***************************************************************************)
(* Contribution data.  A grid is the sequence of its cells with level > 0, *)
(* in the order of the two nested enumerate loops of _initialize_enemies   *)
(* (weeks, then days); cells of level 0 create nothing there.              *)
(***************************************************************************)
CellOf(w, d, l) == [week |-> w, day |-> d, level |-> l]

Grids ==
    { <<>>,
      << CellOf(25, 5, 1) >>,
      << CellOf(26, 3, 1) >>,
      << CellOf(24, 2, 2), CellOf(24, 5, 2) >>,
      << CellOf(25, 1, 1), CellOf(51, 3, 2) >> }

(***************************************************************************)
(* Starfield (drawables/starfield.py).  Every star value comes from        *)
(* self.rng; the draw is an argument of the operators below.  The model    *)
(* draws x from StarDraws(fps) and fixes the other fields of a star        *)
(* (y = 0, brightness = 1.0, size = 1).                                    *)
(***************************************************************************)
StarDraws(fps) == {0, Cell(fps)}

Starfield_init(fps, draws) ==
    [k \in 1..NumStars |->
        [id |-> k - 1, x |-> draws[k], y |-> 0, brightness |-> 100, size |-> 1,
         speed |-> STAR_SPEED_MAX]]

Starfield_animate(stars, fps, draws) ==
    [k \in 1..Len(stars) |->
        LET y2 == stars[k].y + stars[k].speed
        IN  IF y2 > (SHIP_POSITION_Y + 4) * Cell(fps)
            THEN [stars[k] EXCEPT !.y = (0 - 3) * Cell(fps), !.x = draws[k]]
            ELSE [stars[k] EXCEPT !.y = y2]]

(***************************************************************************)
(* Ship (drawables/ship.py).                                               *)
(***************************************************************************)
Ship_init(fps) ==
    [x |-> 25 * Cell(fps), target_x |-> 25 * Cell(fps), shoot_cooldown |-> 0,
     health |-> SHIP_MAX_HEALTH, is_destroyed |-> FALSE,
     is_rapid_fire_active |-> FALSE, rapid_fire_duration_remaining |-> 0]

Ship_is_moving(ship) == ship.x # ship.target_x

Ship_can_shoot(ship) ==
    IF ship.is_rapid_fire_active THEN TRUE ELSE ship.shoot_cooldown <= 0

\* Explosion(x, y, size, game_state): the class is not in the sources; an
\* explosion carries its position, its age and its duration.
Explosion(gs, x, y, size, fps) ==
    [uid |-> gs.next_uid, x |-> x, y |-> y, elapsed_time |-> 0, size |-> size,
     duration |-> (IF size = "large" THEN EXPLOSION_DURATION_LARGE
                   ELSE EXPLOSION_DURATION_SMALL) * fps]

AppendExplosion(gs, x, y, size, fps) ==
    [gs EXCEPT !.explosions = Append(@, Explosion(gs, x, y, size, fps)),
               !.next_uid = @ + 1]

Ship_take_damage(gs, fps) ==
    IF gs.ship.is_destroyed THEN gs
    ELSE LET h == gs.ship.health - 1
         IN  IF h <= 0
             THEN AppendExplosion(
                      [gs EXCEPT !.ship.health = h, !.ship.is_destroyed = TRUE],
                      gs.ship.x, SHIP_POSITION_Y * Cell(fps), "large", fps)
             ELSE [gs EXCEPT !.ship.health = h]

\* index of the first power-up the ship collides with, 0 when none
Ship_check_power_up_collision(gs, fps) ==
    LET hit(k) == /\ gs.ship.x \div Cell(fps) = gs.power_ups[k].x \div Cell(fps)
                  /\ gs.power_ups[k].y >= SHIP_POSITION_Y * Cell(fps)
    IN  IF \E k \in 1..Len(gs.power_ups) : hit(k)
        THEN CHOOSE k \in 1..Len(gs.power_ups) :
                 hit(k) /\ \A j \in 1..(k - 1) : ~hit(j)
        ELSE 0

Ship_animate(gs, fps) ==
    LET s0 == gs.ship
        x1 == IF s0.x < s0.target_x THEN Min(s0.x + SHIP_SPEED, s0.target_x)
              ELSE IF s0.x > s0.target_x THEN Max(s0.x - SHIP_SPEED, s0.target_x)
              ELSE s0.x
        cd == IF s0.shoot_cooldown > 0 THEN s0.shoot_cooldown - TICK
              ELSE s0.shoot_cooldown
        rem == IF s0.is_rapid_fire_active THEN s0.rapid_fire_duration_remaining - TICK
               ELSE s0.rapid_fire_duration_remaining
        act == s0.is_rapid_fire_active /\ rem > 0
        g1 == [gs EXCEPT !.ship.x = x1, !.ship.shoot_cooldown = cd,
                         !.ship.rapid_fire_duration_remaining = rem,
                         !.ship.is_rapid_fire_active = act]
        p == Ship_check_power_up_collision(g1, fps)
    IN  IF p = 0 THEN g1
        ELSE [g1 EXCEPT !.power_ups = RemoveAt(@, p),
                        !.ship.is_rapid_fire_active = TRUE,
                        !.ship.rapid_fire_duration_remaining = RAPID_FIRE_DURATION * fps]

(***************************************************************************)
(* Enemy and Boss (drawables/enemy.py is not in the sources; boss.py is).  *)
(***************************************************************************)
Enemy(id, x, y, health, fps) ==
    [enemy_id |-> id, kind |-> "Enemy", x |-> x * Cell(fps), y |-> y * Cell(fps),
     health |-> health, direction |-> 0, shoot_cooldown |-> 0]

Boss(id, x, y, health, fps) ==
    [enemy_id |-> id, kind |-> "Boss", x |-> x * Cell(fps), y |-> y * Cell(fps),
     health |-> health, direction |-> 1, shoot_cooldown |-> BOSS_SHOOT_INTERVAL * fps]

width_cells == 3
height_cells == 2

\* Enemy.take_damage: one point of damage; at zero health the enemy is removed
\* and the score grows by 100.  The object outlives its place in the list:
\* damaged is the enemy the call was made on, with the health it has now.
Enemy_take_damage(gs, k) ==
    LET h == gs.enemies[k].health - 1
        g1 == [gs EXCEPT !.damaged = [gs.enemies[k] EXCEPT !.health = h]]
    IN  IF h <= 0
        THEN [g1 EXCEPT !.enemies = RemoveAt(@, k), !.score = @ + 100]
        ELSE [g1 EXCEPT !.enemies[k].health = h]

RapidFirePowerUp(gs, x, y) ==
    [uid |-> gs.next_uid, x |-> x, y |-> y, power_up_type |-> "rapid_fire"]

\* a boss that drops a power-up at every hit
Boss_take_damage_always_drops(gs, k) ==
    LET g1 == Enemy_take_damage(gs, k)
        boss == g1.damaged
        g2 == [g1 EXCEPT !.power_ups = Append(@, RapidFirePowerUp(g1, boss.x, boss.y)),
                         !.drops = @ + 1,
                         !.next_uid = @ + 1]
    IN  IF boss.health <= 0 THEN [g2 EXCEPT !.score = @ + 1000] ELSE g2

Boss_take_damage(gs, k) ==
    LET g1 == Enemy_take_damage(gs, k)
        boss == g1.damaged
    IN  IF boss.health <= 0
        THEN [g1 EXCEPT !.score = @ + 1000,
                        !.power_ups = Append(@, RapidFirePowerUp(g1, boss.x, boss.y)),
                        !.drops = @ + 1,
                        !.next_uid = @ + 1]
        ELSE g1

\* hit_enemy.take_damage(): dynamic dispatch on the class of the enemy
take_damage(gs, k) ==
    IF gs.enemies[k].kind = "Boss" THEN Boss_take_damage(gs, k)
    ELSE Enemy_take_damage(gs, k)

BossBullet(gs, x, y, n) ==
    [uid |-> gs.next_uid + n, kind |-> "BossBullet", x |-> x, y |-> y,
     bullet_id |-> 0 - 1]

Boss_shoot(gs, k, fps) ==
    LET boss == gs.enemies[k]
        y == boss.y + (height_cells - 1) * Cell(fps)
    IN  [gs EXCEPT !.bullets = @ \o << BossBullet(gs, boss.x + fps, y, 0),
                                      BossBullet(gs, boss.x + 2 * fps, y, 1),
                                      BossBullet(gs, boss.x + 3 * fps, y, 2) >>,
                   !.next_uid = @ + 3]

Boss_animate(gs, k, fps) ==
    LET boss == gs.enemies[k]
        right == (GAME_GRID_WIDTH - width_cells) * Cell(fps)
        x1 == boss.x + BOSS_MOVE_SPEED * boss.direction
        x2 == IF x1 <= 0 THEN 0 ELSE IF x1 >= right THEN right ELSE x1
        d2 == IF x1 <= 0 THEN 1 ELSE IF x1 >= right THEN 0 - 1 ELSE boss.direction
        cd == boss.shoot_cooldown - TICK
        g1 == [gs EXCEPT !.enemies[k].x = x2, !.enemies[k].direction = d2,
                         !.enemies[k].shoot_cooldown = cd]
    IN  IF cd <= 0
        THEN [Boss_shoot(g1, k, fps) EXCEPT
                  !.enemies[k].shoot_cooldown = BOSS_SHOOT_INTERVAL * fps]
        ELSE g1

\* enemy.animate(delta_time): Boss.animate for the boss; a regular enemy
\* does not move
Enemy_animate(gs, k, fps) ==
    IF gs.enemies[k].kind = "Boss" THEN Boss_animate(gs, k, fps) ELSE gs


(***************************************************************************)
(* Bullet and BossBullet (drawables/bullet.py, drawables/boss_bullet.py).  *)
(***************************************************************************)
\* Bullet(x, game_state): bullet_id keeps its default, -1
Bullet(gs, x, fps) ==
    [uid |-> gs.next_uid, kind |-> "Bullet", x |-> x,
     y |-> (SHIP_POSITION_Y - 1) * Cell(fps), bullet_id |-> 0 - 1]

\* index in game_state.enemies of the first enemy in the bullet's column at
\* or below the bullet, 0 when there is none
Bullet_check_collision(gs, x, y) ==
    LET hit(k) == gs.enemies[k].x = x /\ gs.enemies[k].y >= y
    IN  IF \E k \in 1..Len(gs.enemies) : hit(k)
        THEN CHOOSE k \in 1..Len(gs.enemies) :
                 hit(k) /\ \A j \in 1..(k - 1) : ~hit(j)
        ELSE 0

\* GameState.create_explosion and GameState.remove_bullet are called by
\* Bullet.animate and are not in the sources: an explosion is appended to
\* game_state.explosions, the bullet leaves game_state.bullets.
create_explosion(gs, x, y, size, fps) == AppendExplosion(gs, x, y, size, fps)

remove_bullet(gs, uid) == [gs EXCEPT !.bullets = ListRemove(@, uid)]

\* what one call of hit_enemy.take_damage() did (history, read by the
\* properties only)
HitRecord(before, after, k) ==
    LET e == before.enemies[k]
        alive == \E j \in 1..Len(after.enemies) : after.enemies[j].enemy_id = e.enemy_id
    IN  [enemy_id |-> e.enemy_id, kind |-> e.kind, x |-> e.x, y |-> e.y,
         health_before |-> e.health,
         health_after |-> after.damaged.health,
         in_list_after |-> alive,
         score_before |-> before.score, score_after |-> after.score,
         power_ups_before |-> before.power_ups, power_ups_after |-> after.power_ups]

\* a bullet that damages the enemy it hits twice
Bullet_animate_twice(gs, i, fps) ==
    LET b == gs.bullets[i]
        y2 == b.y - BULLET_SPEED
        g1 == [gs EXCEPT !.bullets[i].y = y2]
        hit_enemy == Bullet_check_collision(g1, b.x, y2)
    IN  IF hit_enemy # 0
        THEN LET g2 == create_explosion(g1, b.x, y2, "small", fps)
                 g3 == take_damage(g2, hit_enemy)
                 again == Bullet_check_collision(g3, b.x, y2)
                 g4 == IF again # 0 THEN take_damage(g3, again) ELSE g3
                 g5 == [g4 EXCEPT !.hits = Append(@, HitRecord(g2, g4, hit_enemy))]
             IN  remove_bullet(g5, b.uid)
        ELSE IF y2 < OFFSCREEN_REMOVE_Y * Cell(fps)
             THEN remove_bullet(g1, b.uid)
             ELSE g1

Bullet_animate(gs, i, fps) ==
    LET b == gs.bullets[i]
        y2 == b.y - BULLET_SPEED
        g1 == [gs EXCEPT !.bullets[i].y = y2]
        hit_enemy == Bullet_check_collision(g1, b.x, y2)
    IN  IF hit_enemy # 0
        THEN LET g2 == create_explosion(g1, b.x, y2, "small", fps)
                 g3 == take_damage(g2, hit_enemy)
                 g4 == [g3 EXCEPT !.hits = Append(@, HitRecord(g2, g3, hit_enemy))]
             IN  remove_bullet(g4, b.uid)
        ELSE IF y2 < OFFSCREEN_REMOVE_Y * Cell(fps)
             THEN remove_bullet(g1, b.uid)
             ELSE g1

BossBullet_check_collision_with_ship(gs, x, y, fps) ==
    /\ x \div Cell(fps) = gs.ship.x \div Cell(fps)
    /\ y >= SHIP_POSITION_Y * Cell(fps)

\* self.game_state.bullets.remove(self): ValueError when self is not in the list
BulletsRemoveSelf(gs, uid) ==
    IF IndexOf(gs.bullets, uid) = 0
    THEN [gs EXCEPT !.raised = "ValueError"]
    ELSE [gs EXCEPT !.bullets = ListRemove(@, uid)]

BossBullet_animate(gs, i, fps) ==
    LET b == gs.bullets[i]
        y2 == b.y + BULLET_SPEED
        g1 == [gs EXCEPT !.bullets[i].y = y2]
        g2 == IF BossBullet_check_collision_with_ship(g1, b.x, y2, fps)
              THEN BulletsRemoveSelf(
                       Ship_take_damage(AppendExplosion(g1, b.x, y2, "small", fps), fps),
                       b.uid)
              ELSE g1
    IN  IF y2 > (SHIP_POSITION_Y + 5) * Cell(fps)
        THEN BulletsRemoveSelf(g2, b.uid)
        ELSE g2

\* bullet.animate(delta_time): dynamic dispatch on the class of the bullet
AnyBullet_animate(gs, i, fps) ==
    IF gs.bullets[i].kind = "BossBullet" THEN BossBullet_animate(gs, i, fps)
    ELSE Bullet_animate(gs, i, fps)

(***************************************************************************)
(* Explosion.animate (not in the sources: an explosion ages and removes    *)
(* itself once its duration has elapsed) and PowerUp.animate (power_up.py).*)
(***************************************************************************)
Explosion_animate(gs, i, fps) ==
    LET t == gs.explosions[i].elapsed_time + TICK
    IN  IF t >= gs.explosions[i].duration
        THEN [gs EXCEPT !.explosions = RemoveAt(@, i)]
        ELSE [gs EXCEPT !.explosions[i].elapsed_time = t]

PowerUp_animate(gs, i, fps) ==
    LET y2 == gs.power_ups[i].y + POWER_UP_SPEED
    IN  IF y2 > (SHIP_POSITION_Y + 5) * Cell(fps)
        THEN [gs EXCEPT !.power_ups = RemoveAt(@, i)]
        ELSE [gs EXCEPT !.power_ups[i].y = y2]

(***************************************************************************)
(* GameState (game/game_state.py).                                         *)
(***************************************************************************)
\* index in the grid of the boss day: the first cell of the highest level
\* (level > boss_health is strict), 0 for a grid without a positive level
BossCell(grid) ==
    IF Len(grid) = 0 THEN 0
    ELSE CHOOSE k \in 1..Len(grid) :
             /\ \A j \in 1..Len(grid) : grid[j].level <= grid[k].level
             /\ \A j \in 1..(k - 1) : grid[j].level < grid[k].level

GameState_initialize_enemies(grid, fps) ==
    [k \in 1..Len(grid) |->
        IF k = BossCell(grid)
        THEN Boss(k, grid[k].week, grid[k].day, Max(1, grid[k].level * 3), fps)
        ELSE Enemy(k, grid[k].week, grid[k].day, grid[k].level, fps)]

\* GameState.__init__: Starfield() is built without an rng argument, so its
\* stars come from a generator seeded by the operating system: draws is any
\* value of the draw space.
GameState_init(grid, fps, draws) ==
    [starfield |-> Starfield_init(fps, draws),
     ship |-> Ship_init(fps),
     enemies |-> GameState_initialize_enemies(grid, fps),
     bullets |-> <<>>,
     explosions |-> <<>>,
     power_ups |-> <<>>,
     score |-> 0,
     next_uid |-> 1,          \* object identities (history)
     hits |-> <<>>,           \* take_damage calls of the last animate (history)
     damaged |-> Enemy(None, 0, 0, 0, fps),  \* the enemy damaged last
     drops |-> 0,             \* power-ups appended so far (history)
     raised |-> "no"]         \* the exception the last animate raised

GameState_shoot(gs, fps) ==
    [gs EXCEPT !.bullets = Append(@, Bullet(gs, (gs.ship.x \div Cell(fps)) * Cell(fps), fps)),
               !.next_uid = @ + 1,
               !.ship.shoot_cooldown = SHIP_SHOOT_COOLDOWN * fps]

GameState_is_complete(gs) == Len(gs.enemies) = 0

\* can_take_action without the test of can_shoot()
GameState_can_take_action_while_cooling(gs) == ~Ship_is_moving(gs.ship)

GameState_can_take_action(gs) ==
    ~Ship_is_moving(gs.ship) /\ Ship_can_shoot(gs.ship)

\* "for x in self.<list>: x.animate(delta_time)": Python's list iterator is
\* an index into the live list; i is that index (from 1) and a removal at
\* or before it moves the next element under the index, which then passes it.
RECURSIVE EnemiesLoop(_, _, _)
EnemiesLoop(gs, i, fps) ==
    IF gs.raised # "no" \/ i > Len(gs.enemies) THEN gs
    ELSE EnemiesLoop(Enemy_animate(gs, i, fps), i + 1, fps)

RECURSIVE BulletsLoop(_, _, _)
BulletsLoop(gs, i, fps) ==
    IF gs.raised # "no" \/ i > Len(gs.bullets) THEN gs
    ELSE BulletsLoop(AnyBullet_animate(gs, i, fps), i + 1, fps)

RECURSIVE ExplosionsLoop(_, _, _)
ExplosionsLoop(gs, i, fps) ==
    IF gs.raised # "no" \/ i > Len(gs.explosions) THEN gs
    ELSE ExplosionsLoop(Explosion_animate(gs, i, fps), i + 1, fps)

RECURSIVE PowerUpsLoop(_, _, _)
PowerUpsLoop(gs, i, fps) ==
    IF gs.raised # "no" \/ i > Len(gs.power_ups) THEN gs
    ELSE PowerUpsLoop(PowerUp_animate(gs, i, fps), i + 1, fps)

GameState_animate(gs, fps, draws) ==
    LET g0 == [gs EXCEPT !.hits = <<>>,
                         !.starfield = Starfield_animate(@, fps, draws)]
        g1 == Ship_animate(g0, fps)
        g2 == EnemiesLoop(g1, 1, fps)
        g3 == BulletsLoop(g2, 1, fps)
        g4 == ExplosionsLoop(g3, 1, fps)
    IN  PowerUpsLoop(g4, 1, fps)


(***************************************************************************)
(* Seed derivation (game/simulation_runtime.py).  random.Random is         *)
(* modelled by a linear congruential generator over 0..RngModulus-1 and    *)
(* the SHA-256 digest by a positional checksum of the same payload.        *)
(***************************************************************************)
Strategies == {"column", "row", "random"}

StrategyClassCode(strategy) ==
    CASE strategy = "column" -> 1 [] strategy = "row" -> 2 [] OTHER -> 3

RECURSIVE GridDigest(_, _)
GridDigest(grid, k) ==
    IF k > Len(grid) THEN 0
    ELSE (grid[k].week * NUM_DAYS + grid[k].day + 1) * grid[k].level
         + 3 * GridDigest(grid, k + 1)

derive_simulation_seed(grid, strategy, fps) ==
    7 * GridDigest(grid, 1) + 5 * StrategyClassCode(strategy) + fps

Random_seeded(seed) == seed % RngModulus
Random_step(s) == (5 * s + 3) % RngModulus

\* create_seeded_game_state: the two sub-streams split off the master stream
strategy_rng_of(seed) == Random_seeded(Random_step(Random_seeded(seed)))
game_rng_of(seed) == Random_seeded(Random_step(Random_step(Random_seeded(seed))))

(***************************************************************************)
(* RandomStrategy (game/strategies/random_strategy.py).                    *)
(***************************************************************************)
MAX_CANDIDATE_COLUMNS == 8

\* sorted(columns, key=distance): ascending distance; the model orders
\* columns of equal distance by column
RECURSIVE SortByDistance(_, _)
SortByDistance(cols, ship_x) ==
    IF cols = {} THEN <<>>
    ELSE LET c == CHOOSE c \in cols : \A o \in cols \ {c} :
                      \/ Abs(c - ship_x) < Abs(o - ship_x)
                      \/ Abs(c - ship_x) = Abs(o - ship_x) /\ c < o
         IN  <<c>> \o SortByDistance(cols \ {c}, ship_x)

RandomStrategy_candidate_columns(gs) ==
    LET columns_with_enemies == {gs.enemies[k].x : k \in 1..Len(gs.enemies)}
        columns_by_distance == SortByDistance(columns_with_enemies, gs.ship.x)
    IN  SubSeq(columns_by_distance, 1,
               Min(MAX_CANDIDATE_COLUMNS, Len(columns_by_distance)))

\* weights with those of distance 0 and of distance 1 to 3 exchanged
RandomStrategy_distance_weight_exchanged(distance, fps) ==
    IF distance = 0 THEN 100
    ELSE IF Cell(fps) <= distance /\ distance <= 3 * Cell(fps) THEN 10
    ELSE 1

\* distance is in length units: 1 cell = Cell(fps)
RandomStrategy_distance_weight(distance, fps) ==
    IF distance = 0 THEN 10
    ELSE IF Cell(fps) <= distance /\ distance <= 3 * Cell(fps) THEN 100
    ELSE 1

RECURSIVE SumTo(_, _)
SumTo(w, k) == IF k = 0 THEN 0 ELSE w[k] + SumTo(w, k - 1)

\* rng.choices(population, weights, k=1)[0]: the element at
\* bisect(cum_weights, random() * total), with random() = rng / RngModulus
Random_choices(population, weights, rng) ==
    LET total == SumTo(weights, Len(weights))
    IN  population[CHOOSE i \in 1..Len(population) :
            /\ SumTo(weights, i) * RngModulus > rng * total
            /\ \A j \in 1..(i - 1) : SumTo(weights, j) * RngModulus <= rng * total]

RandomStrategy_choose_target_column(gs, candidate_columns, rng, fps) ==
    LET weights == [k \in 1..Len(candidate_columns) |->
                       RandomStrategy_distance_weight(
                           Abs(candidate_columns[k] - gs.ship.x), fps)]
    IN  Random_choices(candidate_columns, weights, rng)

\* max(enemies_in_column, key=y): the first enemy of the greatest y
RandomStrategy_lowest_enemy_in_column(gs, target_column) ==
    LET in_col(k) == gs.enemies[k].x = target_column
    IN  CHOOSE k \in 1..Len(gs.enemies) :
            /\ in_col(k)
            /\ \A j \in 1..Len(gs.enemies) : in_col(j) =>
                   \/ gs.enemies[j].y < gs.enemies[k].y
                   \/ gs.enemies[j].y = gs.enemies[k].y /\ j >= k

\* One next() of the generator.  gen holds the generator's locals: the
\* column being shot at and the shots _shoot_column still has to yield.
RandomStrategy_generate_actions(gen, gs, fps) ==
    IF gen.shots_left > 0
    THEN [stop |-> FALSE, action |-> [x |-> gen.target_column, shoot |-> TRUE],
          gen |-> [gen EXCEPT !.shots_left = @ - 1, !.started = TRUE]]
    ELSE IF Len(gs.enemies) = 0
    THEN [stop |-> TRUE, action |-> [x |-> 0, shoot |-> FALSE],
          gen |-> [gen EXCEPT !.started = TRUE]]
    ELSE LET candidate_columns == RandomStrategy_candidate_columns(gs)
             target_column == RandomStrategy_choose_target_column(
                                  gs, candidate_columns, gen.rng, fps)
             target_enemy == RandomStrategy_lowest_enemy_in_column(gs, target_column)
         IN  [stop |-> FALSE, action |-> [x |-> target_column, shoot |-> TRUE],
              gen |-> [gen EXCEPT !.started = TRUE,
                                  !.choices = @ + 1,
                                  !.target_column = target_column,
                                  !.shots_left = gs.enemies[target_enemy].health - 1,
                                  !.rng = Random_step(@)]]

(***************************************************************************)
(* ColumnStrategy and RowStrategy (not in the sources): a sweep over the   *)
(* enemies alive at the first next(), column by column from the left, or   *)
(* row by row from the bottom, with one shot per point of health.          *)
(***************************************************************************)
RECURSIVE Shots(_, _)
Shots(x, n) == IF n <= 0 THEN <<>> ELSE <<[x |-> x, shoot |-> TRUE]>> \o Shots(x, n - 1)

RECURSIVE SweepPlan(_, _)
SweepPlan(enemies, column_first) ==
    IF enemies = {} THEN <<>>
    ELSE LET before(a, b) ==
                 IF column_first
                 THEN a.x < b.x \/ (a.x = b.x /\ a.y > b.y)
                 ELSE a.y > b.y \/ (a.y = b.y /\ a.x < b.x)
             e == CHOOSE e \in enemies : \A o \in enemies \ {e} : before(e, o)
         IN  Shots(e.x, e.health) \o SweepPlan(enemies \ {e}, column_first)

SweepStrategy_generate_actions(gen, gs, column_first) ==
    LET plan == IF gen.started THEN gen.plan
                ELSE SweepPlan({gs.enemies[k] : k \in 1..Len(gs.enemies)}, column_first)
    IN  IF Len(plan) = 0
        THEN [stop |-> TRUE, action |-> [x |-> 0, shoot |-> FALSE],
              gen |-> [gen EXCEPT !.started = TRUE, !.plan = <<>>]]
        ELSE [stop |-> FALSE, action |-> Head(plan),
              gen |-> [gen EXCEPT !.started = TRUE, !.plan = Tail(plan)]]

\* next(self.strategy.generate_actions(game_state))
Strategy_generate_actions(strategy, gen, gs, fps) ==
    CASE strategy = "random" -> RandomStrategy_generate_actions(gen, gs, fps)
      [] strategy = "column" -> SweepStrategy_generate_actions(gen, gs, TRUE)
      [] OTHER -> SweepStrategy_generate_actions(gen, gs, FALSE)


(***************************************************************************)
(* Frame snapshot (game/svg_timeline.py): value copies of what a frame     *)
(* shows.                                                                  *)
(***************************************************************************)
snapshot_svg_timeline_frame(gs, time_ms) ==
    [time_ms |-> time_ms,
     ship_x |-> gs.ship.x,
     stars |-> [k \in 1..Len(gs.starfield) |->
                   [id |-> gs.starfield[k].id, x |-> gs.starfield[k].x,
                    y |-> gs.starfield[k].y,
                    brightness |-> gs.starfield[k].brightness,
                    size |-> gs.starfield[k].size]],
     enemies |-> [k \in 1..Len(gs.enemies) |->
                   [id |-> gs.enemies[k].enemy_id, x |-> gs.enemies[k].x,
                    y |-> gs.enemies[k].y, health |-> gs.enemies[k].health]],
     bullets |-> [k \in 1..Len(gs.bullets) |->
                   [id |-> gs.bullets[k].bullet_id, x |-> gs.bullets[k].x,
                    y |-> gs.bullets[k].y]],
     explosions |-> [k \in 1..Len(gs.explosions) |->
                   [x |-> gs.explosions[k].x, y |-> gs.explosions[k].y,
                    elapsed_time |-> gs.explosions[k].elapsed_time,
                    duration |-> gs.explosions[k].duration]]]

(***************************************************************************)
(* Animator (game/animator.py).  A run is the record                       *)
(*   [inputs, game_state, animator];                                       *)
(* animator.pc is the place where _frame_steps stands:                     *)
(*   "start"   not yet advanced                                            *)
(*   "for"     at the head of "for action in generate_actions(...)"        *)
(*   "while"   at the test of "while can_take_action() is False"           *)
(*   "tail"    at the test of "while not is_complete()"                    *)
(*   "settle"  in "for _ in range(5)"                                      *)
(*   "done"    the timeline has ended (StopIteration, or the break of      *)
(*             _iter_state_timeline at max_frames)                         *)
(*   "raised"  an exception left animate and the generators                *)
(***************************************************************************)
FORCE_KILL_COUNTDOWN == 100
SETTLE_FRAMES == 5

NoFrame == [time_ms |-> None]

Animator_init(strategy, fps, seed) ==
    [pc |-> "create",
     rendered |-> 0,
     elapsed_ms |-> 0,
     frame_duration |-> 1000 \div fps,
     force_kill_countdown |-> FORCE_KILL_COUNTDOWN,
     settle |-> 0,
     action |-> [x |-> 0, shoot |-> FALSE],
     gen |-> [started |-> FALSE, plan |-> <<>>, target_column |-> 0,
              shots_left |-> 0, choices |-> 0, rng |-> strategy_rng_of(seed)],
     last_frame |-> NoFrame,   \* the frame yielded last (history)
     ticks |-> 0,              \* animate calls so far (history)
     moves |-> 0,              \* move_to calls so far (history)
     shots |-> 0,              \* shoot calls so far (history)
     last_shot_tick |-> None,  \* animate calls before the last shoot (history)
     tail_ticks |-> 0,         \* animate calls of the final loop (history)
     after_actions |-> 0]      \* frames yielded since the policy ran out (history)

\* The game_state_factory argument of Animator: the default,
\* create_seeded_game_state, or a factory of the caller's that seeds the
\* policy in the same way and calls GameState(contribution_data).
GameStateFactories == {"create_seeded_game_state", "GameState"}

NoGameState == "none"

\* Animator(contribution_data, strategy, fps, game_state_factory=...) and the
\* call iter_state_timeline(max_frames); no statement of the generator has
\* run yet
NewRun(grid, strategy, fps, max_frames, game_state_factory) ==
    LET seed == derive_simulation_seed(grid, strategy, fps)
    IN  [inputs |-> [contribution_data |-> grid, strategy |-> strategy, fps |-> fps,
                     max_frames |-> max_frames, seed |-> seed,
                     game_state_factory |-> game_state_factory],
         game_state |-> NoGameState,
         animator |-> Animator_init(strategy, fps, seed)]

\* there is a GameState: the factory has returned one
HasGameState(r) ==
    r.inputs.game_state_factory = "GameState" /\ r.animator.pc # "create"

\* line 57, self._create_game_state().  create_seeded_game_state calls
\* GameState(contribution_data, rng=game_rng); GameState.__init__ has the one
\* parameter contribution_data, so that call raises TypeError.  The stars of
\* GameState(contribution_data) come from Starfield(), whose generator is
\* random.Random(): draws is what it yields.
create_game_state(r, draws) ==
    IF r.inputs.game_state_factory = "create_seeded_game_state"
    THEN [r EXCEPT !.animator.pc = "raised"]
    ELSE [r EXCEPT !.animator.pc = "start",
                   !.game_state = GameState_init(r.inputs.contribution_data,
                                                 r.inputs.fps, draws)]

\* _iter_state_timeline, lines 66-71: what the consumer does with one
\* "yield None" of _frame_steps; next_pc is where _frame_steps stands then
iter_state_timeline_step(r, next_pc) ==
    IF r.inputs.max_frames # None /\ r.animator.rendered >= r.inputs.max_frames
    THEN [r EXCEPT !.animator.pc = "done"]
    ELSE [r EXCEPT !.animator.pc = next_pc,
                   !.animator.rendered = @ + 1,
                   !.animator.elapsed_ms = @ + r.animator.frame_duration,
                   !.animator.last_frame =
                       snapshot_svg_timeline_frame(r.game_state, r.animator.elapsed_ms),
                   !.animator.after_actions =
                       IF next_pc \in {"tail", "settle"} THEN @ + 1 ELSE @]

\* game_state.animate(self.delta_time) followed by "yield None"
AnimateAndYield(r, draws, next_pc) ==
    LET gs == GameState_animate(r.game_state, r.inputs.fps, draws)
        r1 == [r EXCEPT !.game_state = gs, !.animator.ticks = @ + 1]
    IN  IF gs.raised # "no"
        THEN [r1 EXCEPT !.animator.pc = "raised"]
        ELSE iter_state_timeline_step(r1, next_pc)

\* the initial frame emitted after a first animate call
FrameSteps_initial_after_tick(r) ==
    AnimateAndYield(r, [k \in 1..NumStars |-> 0], "for")

\* line 81: the initial frame
FrameSteps_initial(r) == iter_state_timeline_step(r, "for")

\* line 84: the for statement advances the policy; line 85: move_to
FrameSteps_next_action(r) ==
    LET n == Strategy_generate_actions(r.inputs.strategy, r.animator.gen,
                                       r.game_state, r.inputs.fps)
    IN  IF n.stop
        THEN [r EXCEPT !.animator.gen = n.gen,
                       !.animator.pc = "tail",
                       !.animator.force_kill_countdown = FORCE_KILL_COUNTDOWN]
        ELSE [r EXCEPT !.animator.gen = n.gen,
                       !.animator.action = n.action,
                       !.animator.moves = @ + 1,
                       !.game_state.ship.target_x = n.action.x,
                       !.animator.pc = "while"]

\* lines 86-88
FrameSteps_wait(r, draws) == AnimateAndYield(r, draws, "while")

\* lines 90-93
FrameSteps_shoot(r, draws) ==
    IF r.animator.action.shoot
    THEN AnimateAndYield(
             [r EXCEPT !.game_state = GameState_shoot(@, r.inputs.fps),
                       !.animator.shots = @ + 1,
                       !.animator.last_shot_tick = r.animator.ticks],
             draws, "for")
    ELSE [r EXCEPT !.animator.pc = "for"]

\* the tail loop with the countdown never decremented
FrameSteps_tail_unbounded(r, draws) ==
    AnimateAndYield([r EXCEPT !.animator.tail_ticks = @ + 1], draws, "tail")

\* lines 97-103
FrameSteps_tail(r, draws) ==
    LET r1 == AnimateAndYield([r EXCEPT !.animator.tail_ticks = @ + 1], draws, "tail")
        left == r.animator.force_kill_countdown - 1
    IN  IF r1.animator.pc # "tail" THEN r1
        ELSE [r1 EXCEPT !.animator.force_kill_countdown = left,
                        !.animator.pc = IF left <= 0 THEN "settle" ELSE "tail"]

\* line 97, when is_complete() holds
FrameSteps_tail_end(r) == [r EXCEPT !.animator.pc = "settle"]

\* settle frames that call animate before the yield
FrameSteps_settle_animating(r) ==
    AnimateAndYield([r EXCEPT !.animator.settle = @ + 1],
                    [k \in 1..NumStars |-> 0], "settle")

\* lines 105-106
FrameSteps_settle(r) ==
    iter_state_timeline_step([r EXCEPT !.animator.settle = @ + 1], "settle")

\* the end of _frame_steps ends the for loop of _iter_state_timeline
FrameSteps_stop(r) == [r EXCEPT !.animator.pc = "done"]

Finished(r) == r.animator.pc \in {"done", "raised"}


(***************************************************************************)
(* Slot multiplexer (output/_svg_tracks.py, _tl_build_object_slot_tracks). *)
(* A frame map is modelled by the set of its keys; the payload of id in    *)
(* frame f is the pair [id, frame], so that every payload is told apart.   *)
(***************************************************************************)
NoPayload == [id |-> None, frame |-> None]
Payload(id, f) == [id |-> id, frame |-> f]

\* the ids of the model: 1, 2, 10, 4, 5, ... (10 sorts before 2 as a string)
PoolId(k) == IF k = 3 THEN 10 ELSE k
PoolIds == {PoolId(k) : k \in 1..MaxPoolIds}

\* str(value), as the sequence of its decimal digits
RECURSIVE Str(_)
Str(n) == IF n < 10 THEN <<n>> ELSE Str(n \div 10) \o <<n % 10>>

\* a < b as Python compares strings
StrLess(a, b) ==
    \E k \in 1..(Len(a) + 1) :
        /\ \A j \in 1..(k - 1) : j <= Len(b) /\ a[j] = b[j]
        /\ k <= Len(b)
        /\ (k > Len(a) \/ a[k] < b[k])

\* sorted(ids, key=lambda value: str(value))
RECURSIVE SortedByStr(_)
SortedByStr(ids) ==
    IF ids = {} THEN <<>>
    ELSE LET m == CHOOSE m \in ids : \A o \in ids \ {m} : StrLess(Str(m), Str(o))
         IN  <<m>> \o SortedByStr(ids \ {m})

\* the slot numbers with the highest first
RECURSIVE SortedSlots_descending(_)
SortedSlots_descending(slots) ==
    IF slots = {} THEN <<>>
    ELSE LET m == CHOOSE m \in slots : \A o \in slots : o <= m
         IN  <<m>> \o SortedSlots_descending(slots \ {m})

\* list.sort() of a list of distinct slot numbers
RECURSIVE SortedSlots(_)
SortedSlots(slots) ==
    IF slots = {} THEN <<>>
    ELSE LET m == CHOOSE m \in slots : \A o \in slots : m <= o
         IN  <<m>> \o SortedSlots(slots \ {m})

SeqToSet(q) == {q[k] : k \in 1..Len(q)}

\* lines 92-95 and 114-117: the slots of the ids that are not in the current
\* frame go back to free_slots
SlotEndedIds(st, current_ids) == {id \in DOMAIN st.active_slots : id \notin current_ids}

\* slots handed back while their ids stay in active_slots
SlotRelease_keeps_active(st, current_ids) ==
    LET ended_ids == SlotEndedIds(st, current_ids)
    IN  [st EXCEPT
            !.free_slots = SortedSlots(SeqToSet(@) \cup {st.active_slots[id] : id \in ended_ids})]

\* the ended ids leave active_slots and their slots are not handed back
SlotRelease_forgets_slots(st, current_ids) ==
    LET ended_ids == SlotEndedIds(st, current_ids)
    IN  [st EXCEPT !.active_slots = [id \in (DOMAIN @) \ ended_ids |-> @[id]]]

SlotRelease(st, current_ids) ==
    LET ended_ids == SlotEndedIds(st, current_ids)
    IN  [st EXCEPT
            !.free_slots = SortedSlots(SeqToSet(@) \cup {st.active_slots[id] : id \in ended_ids}),
            !.active_slots = [id \in (DOMAIN @) \ ended_ids |-> @[id]]]

\* lines 97-105: the ids of the frame take their slots, in str order
RECURSIVE SlotAssign(_, _, _)
SlotAssign(st, ids, frame_index) ==
    IF Len(ids) = 0 THEN st
    ELSE LET object_id == Head(ids)
         IN  IF object_id \in DOMAIN st.active_slots
             THEN SlotAssign(st, Tail(ids), frame_index)
             ELSE IF Len(st.free_slots) > 0
             THEN SlotAssign(
                      [st EXCEPT !.free_slots = Tail(@),
                                 !.active_slots = [id \in (DOMAIN @) \cup {object_id} |->
                                     IF id = object_id THEN Head(st.free_slots) ELSE @[id]]],
                      Tail(ids), frame_index)
             ELSE SlotAssign(
                      [st EXCEPT !.slot_tracks = Append(@, [k \in 1..frame_index |-> NoPayload]),
                                 !.active_slots = [id \in (DOMAIN @) \cup {object_id} |->
                                     IF id = object_id THEN Len(st.slot_tracks) ELSE @[id]]],
                      Tail(ids), frame_index)

\* the payloads are stored and only the tracks that hold one grow
SlotStore_held_only(st, current_ids, frame_index) ==
    [st EXCEPT !.slot_tracks =
        [s \in 1..Len(@) |->
            IF \E id \in current_ids : st.active_slots[id] = s - 1
            THEN Append(@[s],
                        Payload(CHOOSE id \in current_ids : st.active_slots[id] = s - 1,
                                frame_index))
            ELSE @[s]]]

\* lines 107-111: every track grows by one entry, the payloads are stored.
\* Slots are numbered from 0; slot s is slot_tracks[s + 1].
SlotStore(st, current_ids, frame_index) ==
    [st EXCEPT !.slot_tracks =
        [s \in 1..Len(@) |->
            Append(@[s],
                   IF \E id \in current_ids : st.active_slots[id] = s - 1
                   THEN Payload(CHOOSE id \in current_ids : st.active_slots[id] = s - 1,
                                frame_index)
                   ELSE NoPayload)]]

\* the iteration with the slots released at its start in either mode
tl_build_object_slot_tracks_step_eager(st, frame_map, reuse_slots_within_frame) ==
    LET s1 == SlotRelease(st, frame_map)
        s2 == SlotAssign(s1, SortedByStr(frame_map), st.frame_index)
        s3 == SlotStore(s2, frame_map, st.frame_index)
    IN  [s3 EXCEPT !.frame_index = @ + 1]

\* one iteration of "for frame_index, frame_map in enumerate(frame_maps)"
tl_build_object_slot_tracks_step(st, frame_map, reuse_slots_within_frame) ==
    LET s1 == IF reuse_slots_within_frame THEN SlotRelease(st, frame_map) ELSE st
        s2 == SlotAssign(s1, SortedByStr(frame_map), st.frame_index)
        s3 == SlotStore(s2, frame_map, st.frame_index)
        s4 == IF reuse_slots_within_frame THEN s3 ELSE SlotRelease(s3, frame_map)
    IN  [s4 EXCEPT !.frame_index = @ + 1]

SlotInit ==
    [frame_index |-> 0, slot_tracks |-> <<>>, active_slots |-> <<>>, free_slots |-> <<>>]

\* reuse_slots_within_frame as _tl_bullet_elements passes it (line 362) and
\* as _tl_explosion_elements leaves it (line 608, the default)
tl_bullet_elements_reuse == FALSE
tl_explosion_elements_reuse == TRUE

(***************************************************************************)
(* Specifications.                                                         *)
(***************************************************************************)
Idle == "idle"

Run == [inputs |-> inputs, game_state |-> game_state, animator |-> animator]

Draws(fps) == [1..NumStars -> StarDraws(fps)]

MaxFramesChoices == {None} \cup 0..MaxFrameCap

RunInit(r) ==
    /\ inputs = r.inputs
    /\ game_state = r.game_state
    /\ animator = r.animator

\* One timeline: Animator(data, strategy, fps).iter_state_timeline(max_frames)
Init ==
    /\ \E grid \in Grids, strategy \in Strategies, fps \in 1..MaxFps,
          max_frames \in MaxFramesChoices, factory \in GameStateFactories :
              RunInit(NewRun(grid, strategy, fps, max_frames, factory))
    /\ twin = Idle
    /\ slot_in = Idle
    /\ slot_st = Idle
    /\ call = Idle
    /\ ret = Idle

Install(r) ==
    /\ game_state' = r.game_state
    /\ animator' = r.animator
    /\ UNCHANGED <<inputs, slot_in, slot_st, call, ret>>

CreateGameState ==
    /\ animator.pc = "create"
    /\ \E draws \in Draws(inputs.fps) : Install(create_game_state(Run, draws))
    /\ UNCHANGED twin

EmitInitialFrame ==
    /\ animator.pc = "start"
    /\ Install(FrameSteps_initial(Run))
    /\ UNCHANGED twin

NextAction ==
    /\ animator.pc = "for"
    /\ Install(FrameSteps_next_action(Run))
    /\ UNCHANGED twin

WaitTick ==
    /\ animator.pc = "while"
    /\ ~GameState_can_take_action(game_state)
    /\ \E draws \in Draws(inputs.fps) : Install(FrameSteps_wait(Run, draws))
    /\ UNCHANGED twin

ShootTick ==
    /\ animator.pc = "while"
    /\ GameState_can_take_action(game_state)
    /\ \E draws \in Draws(inputs.fps) : Install(FrameSteps_shoot(Run, draws))
    /\ UNCHANGED twin

TailTick ==
    /\ animator.pc = "tail"
    /\ ~GameState_is_complete(game_state)
    /\ \E draws \in Draws(inputs.fps) : Install(FrameSteps_tail(Run, draws))
    /\ UNCHANGED twin

TailEnd ==
    /\ animator.pc = "tail"
    /\ GameState_is_complete(game_state)
    /\ Install(FrameSteps_tail_end(Run))
    /\ UNCHANGED twin

SettleFrame ==
    /\ animator.pc = "settle"
    /\ animator.settle < SETTLE_FRAMES
    /\ Install(FrameSteps_settle(Run))
    /\ UNCHANGED twin

StopIteration ==
    /\ animator.pc = "settle"
    /\ animator.settle >= SETTLE_FRAMES
    /\ Install(FrameSteps_stop(Run))
    /\ UNCHANGED twin

Next ==
    \/ CreateGameState
    \/ EmitInitialFrame
    \/ NextAction
    \/ WaitTick
    \/ ShootTick
    \/ TailTick
    \/ TailEnd
    \/ SettleFrame
    \/ StopIteration

Spec == Init /\ [][Next]_vars

\* The generators are driven by a for loop: a timeline that can take a step
\* takes it.
SpecFair == Spec /\ WF_vars(Next)

\* the step of a run at its current place
FrameSteps_step(r, draws) ==
    CASE r.animator.pc = "create" -> create_game_state(r, draws)
      [] r.animator.pc = "start" -> FrameSteps_initial(r)
      [] r.animator.pc = "for" -> FrameSteps_next_action(r)
      [] r.animator.pc = "while" ->
            IF GameState_can_take_action(r.game_state)
            THEN FrameSteps_shoot(r, draws) ELSE FrameSteps_wait(r, draws)
      [] r.animator.pc = "tail" ->
            IF GameState_is_complete(r.game_state)
            THEN FrameSteps_tail_end(r) ELSE FrameSteps_tail(r, draws)
      [] r.animator.pc = "settle" ->
            IF r.animator.settle < SETTLE_FRAMES
            THEN FrameSteps_settle(r) ELSE FrameSteps_stop(r)
      [] OTHER -> r

\* Two timelines of the same grid, policy and fps, each with its own
\* Animator, policy object and GameState, advanced side by side; the second
\* has the same max_frames or none.
InitTwin ==
    /\ \E grid \in Grids, strategy \in Strategies, fps \in 1..MaxFps,
          max_frames \in MaxFramesChoices, factory \in GameStateFactories :
          \E max_frames2 \in {max_frames, None} :
              /\ RunInit(NewRun(grid, strategy, fps, max_frames, factory))
              /\ twin = NewRun(grid, strategy, fps, max_frames2, factory)
    /\ slot_in = Idle
    /\ slot_st = Idle
    /\ call = Idle
    /\ ret = Idle

TwinStep ==
    /\ ~Finished(Run) \/ ~Finished(twin)
    /\ \E draws \in Draws(inputs.fps), draws2 \in Draws(inputs.fps) :
          /\ Install(FrameSteps_step(Run, draws))
          /\ twin' = FrameSteps_step(twin, draws2)

SpecTwin == InitTwin /\ [][TwinStep]_vars

\* _tl_build_object_slot_tracks(frame_maps, reuse_slots_within_frame), one
\* frame map per step
InitSlots ==
    /\ inputs = Idle
    /\ game_state = Idle
    /\ animator = Idle
    /\ twin = Idle
    /\ \E reuse \in BOOLEAN :
          slot_in = [frame_maps |-> <<>>, reuse_slots_within_frame |-> reuse]
    /\ slot_st = SlotInit
    /\ call = Idle
    /\ ret = Idle

SlotFrame ==
    /\ Len(slot_in.frame_maps) < MaxSlotFrames
    /\ \E frame_map \in SUBSET PoolIds :
          /\ slot_in' = [slot_in EXCEPT !.frame_maps = Append(@, frame_map)]
          /\ slot_st' = tl_build_object_slot_tracks_step(
                            slot_st, frame_map, slot_in.reuse_slots_within_frame)
    /\ UNCHANGED <<inputs, game_state, animator, twin, call, ret>>

SpecSlots == InitSlots /\ [][SlotFrame]_vars


(***************************************************************************)
(* Track compressors (output/_svg_tracks.py).  A track is a list of times  *)
(* (integers, milliseconds) and a list of values.  Scalar values and point *)
(* coordinates are exact multiples of a quarter of the scalar epsilon, so  *)
(* that EPS = 4; colours are strings.  Lists are indexed from 1 here and   *)
(* from 0 in the code; forced_indices holds the code's indices.            *)
(***************************************************************************)
EPS == 4

Track(times, values) == [times |-> times, values |-> values]

Mismatched(times, values) ==
    Len(times) = 0 \/ Len(values) = 0 \/ Len(times) # Len(values)

Last(q) == q[Len(q)]

SetLast(q, v) == [q EXCEPT ![Len(q)] = v]

\* the loop of _tl_compress_discrete_track, lines 69-76
RECURSIVE DiscreteTrackLoop(_, _, _, _)
DiscreteTrackLoop(times, values, i, compact) ==
    IF i > Len(values) THEN compact
    ELSE IF times[i] = Last(compact.times)
    THEN DiscreteTrackLoop(times, values, i + 1,
             [compact EXCEPT !.values = SetLast(@, values[i])])
    ELSE IF values[i] = Last(compact.values)
    THEN DiscreteTrackLoop(times, values, i + 1, compact)
    ELSE DiscreteTrackLoop(times, values, i + 1,
             Track(Append(compact.times, times[i]), Append(compact.values, values[i])))

tl_compress_discrete_track(times, values) ==
    IF Mismatched(times, values)
    THEN Track(<<0>>, <<IF Len(values) > 0 THEN values[1] ELSE "#000000">>)
    ELSE DiscreteTrackLoop(times, values, 2, Track(<<times[1]>>, <<values[1]>>))

\* _tl_compress_discrete_points: the same loop over points
tl_compress_discrete_points(times, points) ==
    IF Mismatched(times, points)
    THEN Track(<<0>>, << <<0, 0>> >>)
    ELSE DiscreteTrackLoop(times, points, 2, Track(<<times[1]>>, <<points[1]>>))

\* the loop of _tl_compress_scalar_track, lines 130-139
RECURSIVE ScalarTrackLoop(_, _, _, _)
ScalarTrackLoop(times, values, i, compact) ==
    IF i > Len(values) THEN compact
    ELSE IF times[i] = Last(compact.times)
    THEN ScalarTrackLoop(times, values, i + 1,
             [compact EXCEPT !.values = SetLast(@, values[i])])
    ELSE IF Abs(values[i] - Last(compact.values)) <= EPS
    THEN ScalarTrackLoop(times, values, i + 1, compact)
    ELSE ScalarTrackLoop(times, values, i + 1,
             Track(Append(compact.times, times[i]), Append(compact.values, values[i])))

tl_compress_scalar_track(times, values) ==
    IF Mismatched(times, values)
    THEN Track(<<0>>, <<0>>)
    ELSE ScalarTrackLoop(times, values, 2, Track(<<times[1]>>, <<values[1]>>))

\* abs(a / b - c / d) > eps for positive b and d, without division
SlopesDiffer(a, b, c, d, eps) == Abs(a * d - c * b) > eps * b * d

\* keep[] of the two collinearity compressors as a list of indices (from 1);
\* bends holds the inner indices at which the slope changes
KeepIf(n, times, forced_indices, bends) ==
    LET kept(i) ==
            \/ i = 1
            \/ i = n
            \/ (i - 1) \in forced_indices
            \/ times[i] = times[i - 1]
            \/ times[i + 1] = times[i]
            \/ i \in bends
    IN  SortedSlots({i \in 1..n : kept(i)})

Pick(q, keep) == [k \in 1..Len(keep) |-> q[keep[k]]]

tl_compress_linear_scalar_track(times, values, forced_indices) ==
    IF Mismatched(times, values)
    THEN Track(<<0>>, <<0>>)
    ELSE IF Len(times) <= 2 THEN Track(times, values)
    ELSE LET bend(i) ==
                 SlopesDiffer(values[i] - values[i - 1], times[i] - times[i - 1],
                              values[i + 1] - values[i], times[i + 1] - times[i], EPS)
             keep == KeepIf(Len(values), times, forced_indices,
                            {i \in 2..(Len(values) - 1) : bend(i)})
         IN  Track(Pick(times, keep), Pick(values, keep))

\* _tl_compress_points_with_forced returns (points, times); the point
\* epsilon is 1e-6, EPS in the unit of the point coordinates
tl_compress_points_with_forced(points, times, forced_indices) ==
    IF Len(points) <= 2 THEN Track(times, points)
    ELSE LET bend(i) ==
                 \/ SlopesDiffer(points[i][1] - points[i - 1][1], times[i] - times[i - 1],
                                 points[i + 1][1] - points[i][1], times[i + 1] - times[i], EPS)
                 \/ SlopesDiffer(points[i][2] - points[i - 1][2], times[i] - times[i - 1],
                                 points[i + 1][2] - points[i][2], times[i + 1] - times[i], EPS)
             keep == KeepIf(Len(points), times, forced_indices,
                            {i \in 2..(Len(points) - 1) : bend(i)})
         IN  Track(Pick(times, keep), Pick(points, keep))

\* The sample tracks of the model: times start at 0..MaxTimeStep and grow
\* by 0..MaxTimeStep, values are 0, 3 or 6 (under, and over, EPS apart).
\* the merge loop of _tl_pad_local_track, lines 194-200
RECURSIVE PadMergeLoop(_, _, _, _)
PadMergeLoop(times, values, index, merged) ==
    IF index > Len(times) THEN merged
    ELSE IF times[index] = Last(merged.times)
    THEN PadMergeLoop(times, values, index + 1,
             [merged EXCEPT !.values = SetLast(@, values[index])])
    ELSE PadMergeLoop(times, values, index + 1,
             Track(Append(merged.times, times[index]),
                   Append(merged.values, values[index])))

tl_pad_local_track(times, values, duration_ms) ==
    IF Mismatched(times, values)
    THEN [raised |-> "ValueError"]
    ELSE LET front == IF times[1] > 0
                      THEN Track(<<0>> \o times, <<values[1]>> \o values)
                      ELSE Track(times, values)
             padded == IF Last(front.times) < duration_ms
                       THEN Track(Append(front.times, duration_ms),
                                  Append(front.values, Last(front.values)))
                       ELSE IF Last(front.times) > duration_ms
                       THEN Track(SetLast(front.times, duration_ms), front.values)
                       ELSE front
         IN  PadMergeLoop(padded.times, padded.values, 2,
                          Track(<<padded.times[1]>>, <<padded.values[1]>>))

\* the loop duration without either clamp
total_duration_ms_unclamped(frame_count, frame_duration) ==
    frame_count * frame_duration

\* SvgOutputProvider.encode hands max(1, frame_duration) to the encoder,
\* which loops over max(1, len(frames) * frame_duration)
total_duration_ms(frame_count, frame_duration) ==
    Max(1, frame_count * Max(1, frame_duration))

FrameDurations == 0..MaxFrameDuration

TrackValues == {0, 3, 6}

ColorOf(v) == CASE v = 0 -> "#000000" [] v = 3 -> "#ff0000" [] OTHER -> "#00ff00"

RECURSIVE RunningSum(_)
RunningSum(steps) ==
    IF Len(steps) = 0 THEN <<>>
    ELSE LET front == RunningSum(SubSeq(steps, 1, Len(steps) - 1))
         IN  Append(front, (IF Len(front) = 0 THEN 0 ELSE Last(front)) + Last(steps))

TrackCalls ==
    { [fn |-> "compress",
       times |-> RunningSum(steps),
       values |-> values,
       colors |-> [i \in 1..Len(values) |-> ColorOf(values[i])],
       points |-> [i \in 1..Len(values) |-> <<values[i], drift * i>>],
       forced_indices |-> forced,
       frame_duration |-> frame_duration] :
        steps \in UNION {[1..n -> 0..MaxTimeStep] : n \in 1..MaxTrackLen},
        values \in UNION {[1..n -> TrackValues] : n \in 1..MaxTrackLen},
        drift \in {0, 3},
        forced \in {{}, {1}},
        frame_duration \in FrameDurations }

\* a call that has not returned yet
Pending == [fn |-> "pending"]

InitTracks ==
    /\ inputs = Idle
    /\ game_state = Idle
    /\ animator = Idle
    /\ twin = Idle
    /\ slot_in = Idle
    /\ slot_st = Idle
    /\ call \in {c \in TrackCalls : Len(c.times) = Len(c.values)}
    /\ ret = Pending

\* every compressor applied to the samples
CompressTracks ==
    /\ call.fn = "compress"
    /\ ret = Pending
    /\ ret' = [fn |-> "compress",
               discrete_track |-> tl_compress_discrete_track(call.times, call.colors),
               discrete_points |-> tl_compress_discrete_points(call.times, call.points),
               scalar_track   |-> tl_compress_scalar_track(call.times, call.values),
               linear_scalar_track |->
                   tl_compress_linear_scalar_track(call.times, call.values,
                                                   call.forced_indices),
               points_with_forced |->
                   tl_compress_points_with_forced(call.points, call.times,
                                                  call.forced_indices)]
    /\ UNCHANGED <<inputs, game_state, animator, twin, slot_in, slot_st, call>>

\* every compressed track padded to the loop, as the encoder does with the
\* tracks of stars, enemies, explosions, bullets and the ship
PadTracks ==
    /\ call.fn = "compress"
    /\ ret.fn = "compress"
    /\ LET total == total_duration_ms(Len(call.times), call.frame_duration)
           pad(track) == tl_pad_local_track(track.times, track.values, total)
       IN  ret' = [fn |-> "pad",
                   total_duration_ms |-> total,
                   discrete_track |-> pad(ret.discrete_track),
                   discrete_points |-> pad(ret.discrete_points),
                   scalar_track |-> pad(ret.scalar_track),
                   linear_scalar_track |-> pad(ret.linear_scalar_track),
                   points_with_forced |-> pad(ret.points_with_forced)]
    /\ UNCHANGED <<inputs, game_state, animator, twin, slot_in, slot_st, call>>

SpecTracks == InitTracks /\ [][CompressTracks \/ PadTracks]_vars

(***************************************************************************)
(* output/_svg_entity_minifier.py.  Text is a sequence of character codes. *)
(* A document is the XML declaration (or none), the DOCTYPE blocks that    *)
(* follow it, each a list of <<name, value>> entity declarations, and the  *)
(* attribute occurrences of its elements in document order:                *)
(*   <?xml version="1.0"?><!DOCTYPE svg [...]><svg xmlns="..."><g a="v"/>  *)
(*   ...</svg>                                                             *)
(* The version and xmlns values occur once and are never aliased.          *)
(***************************************************************************)
Code(c) ==
    CASE c = "&" -> 38 [] c = ";" -> 59 [] c = "%" -> 37 [] c = "a" -> 97
      [] c = "A" -> 65 [] c = "0" -> 48 [] c = "p" -> 112 [] c = "x" -> 120

Rep(c, n) == [k \in 1..n |-> c]

Document(xml_decl, doctypes, attrs) ==
    [xml_decl |-> xml_decl, doctypes |-> doctypes, attrs |-> attrs]
Attr(attribute, value) == [attribute |-> attribute, value |-> value]

ALPHABET_LEN == 52
\* digits[remainder] of _to_compact_name
Digit(remainder) ==
    IF remainder < 26 THEN Code("a") + remainder ELSE Code("A") + remainder - 26

RECURSIVE CompactNameLoop(_, _)
CompactNameLoop(current, out) ==
    LET quotient == current \div ALPHABET_LEN
        reversed == <<Digit(current % ALPHABET_LEN)>> \o out
    IN  IF quotient - 1 < 0 THEN reversed
        ELSE CompactNameLoop(quotient - 1, reversed)

to_compact_name(value) ==
    IF value = 0 THEN <<Digit(0)>> ELSE CompactNameLoop(value, <<>>)

\* lt, gt, amp, apos, quot
XML_PREDEFINED_ENTITIES ==
    { <<108, 116>>, <<103, 116>>, <<97, 109, 112>>, <<97, 112, 111, 115>>,
      <<113, 117, 111, 116>> }

\* a name search that takes the candidate whether it is used or not
tl_next_available_entity_name_unchecked(name_index, used_names) ==
    <<to_compact_name(name_index), name_index + 1>>

\* <<name, next index>>
RECURSIVE tl_next_available_entity_name(_, _)
tl_next_available_entity_name(name_index, used_names) ==
    LET candidate == to_compact_name(name_index)
    IN  IF candidate \in used_names
        THEN tl_next_available_entity_name(name_index + 1, used_names)
        ELSE <<candidate, name_index + 1>>

\* f"&{name};" and f'<!ENTITY {name} "{value}">'
EntityRef(name) == <<Code("&")>> \o name \o <<Code(";")>>
DefinitionLen(name, value) == 9 + Len(name) + 2 + Len(value) + 2
Savings(count, name, value) ==
    count * (Len(value) - Len(EntityRef(name))) - DefinitionLen(name, value)

Occurrences(attrs, value) ==
    Cardinality({k \in 1..Len(attrs) : attrs[k].value = value})

\* the sort key of lines 28-33, compared as Python compares tuples
OrderedBefore(attrs, v, w) ==
    LET cv == Occurrences(attrs, v)
        cw == Occurrences(attrs, w)
        kv == <<0 - cv * Len(v), 0 - cv, 0 - Len(v)>>
        kw == <<0 - cw * Len(w), 0 - cw, 0 - Len(w)>>
    IN  \/ StrLess(kv, kw)
        \/ kv = kw /\ StrLess(v, w)

\* lines 36-52, over the values not yet visited
RECURSIVE SelectValues(_, _, _)
SelectValues(attrs, values, st) ==
    IF values = {} THEN st
    ELSE LET value == CHOOSE v \in values :
                          \A w \in values \ {v} : OrderedBefore(attrs, v, w)
             count == Occurrences(attrs, value)
             next == tl_next_available_entity_name(st.name_index, st.used_names)
             rest == values \ {value}
         IN  IF count < 2 \/ Savings(count, next[1], value) <= 0
             THEN SelectValues(attrs, rest, st)
             ELSE SelectValues(attrs, rest,
                      [selected |-> Append(st.selected, <<next[1], value>>),
                       used_names |-> st.used_names \cup {next[1]},
                       name_index |-> next[2]])

\* lines 59-66: every ="value" of a selected value becomes ="&name;"
ReplaceValues(attrs, selected) ==
    [k \in 1..Len(attrs) |->
        IF \E s \in 1..Len(selected) : selected[s][2] = attrs[k].value
        THEN LET s == CHOOSE s \in 1..Len(selected) : selected[s][2] = attrs[k].value
             IN  Attr(attrs[k].attribute, EntityRef(selected[s][1]))
        ELSE attrs[k]]

Contains(text, c) == \E k \in 1..Len(text) : text[k] = c
StartsWith(text, prefix) ==
    Len(prefix) <= Len(text) /\ SubSeq(text, 1, Len(prefix)) = prefix

\* _tl_iter_prefix_attribute_values and the filter of lines 113-115
PrefixEntries(attrs) ==
    SelectSeq(attrs, LAMBDA a :
        /\ a.attribute \in {"values", "keyTimes"}
        /\ ~Contains(a.value, Code("&"))
        /\ Contains(a.value, Code(";")))

MAX_SEMICOLONS == 320
MIN_SEMICOLONS == 5
SKIPPED_SEMICOLONS == 3
MIN_PREFIX_LEN == 30

\* lines 124-131: the offsets (from 0) of the first 320 semicolons
SemicolonPositions(value) ==
    LET at == {k \in 1..Len(value) : value[k] = Code(";")}
        before(k) == Cardinality({j \in at : j < k})
    IN  [n \in 1..Min(Cardinality(at), MAX_SEMICOLONS) |->
            (CHOOSE k \in at : before(k) = n - 1) - 1]

\* lines 133-140: the prefixes one value proposes, in order
PrefixesOf(value) ==
    LET positions == SemicolonPositions(value)
        late == SelectSeq(SubSeq(positions, SKIPPED_SEMICOLONS + 1, Len(positions)),
                          LAMBDA position : position >= MIN_PREFIX_LEN)
    IN  IF Len(positions) < MIN_SEMICOLONS THEN <<>>
        ELSE [k \in 1..Len(late) |-> SubSeq(value, 1, late[k])] \o <<>>

\* lines 111-161.  prefix_counts is filled entry by entry and prefix by
\* prefix, and the loop of lines 149-159 keeps the first key of the highest
\* positive savings; a key's place in the dict is that of the first entry
\* and prefix that propose it.  <<>> for None, else <<[attribute, value]>>
\* with value the prefix
tl_best_prefix_entity_candidate(attrs, name) ==
    LET entries == PrefixEntries(attrs)
        prefixes == [e \in 1..Len(entries) |-> PrefixesOf(entries[e].value)] \o <<>>
        proposes(e, key) ==
            /\ entries[e].attribute = key.attribute
            /\ \E p \in 1..Len(prefixes[e]) : prefixes[e][p] = key.value
        keys == UNION {{Attr(entries[e].attribute, prefixes[e][p]) :
                           p \in 1..Len(prefixes[e])} : e \in 1..Len(entries)}
        count(key) == Cardinality({e \in 1..Len(entries) : proposes(e, key)})
        savings(key) == Savings(count(key), name, key.value)
        eligible == {key \in keys : count(key) >= 2 /\ savings(key) > 0}
        gains == {savings(key) : key \in eligible}
        best_savings == CHOOSE gain \in gains : \A other \in gains : other <= gain
        tied == {key \in eligible : savings(key) = best_savings}
        place(key) ==
            LET e == CHOOSE e \in 1..Len(entries) :
                         proposes(e, key) /\ \A j \in 1..(e - 1) : ~proposes(j, key)
            IN  <<e, CHOOSE p \in 1..Len(prefixes[e]) : prefixes[e][p] = key.value>>
    IN  IF eligible = {} THEN <<>>
        ELSE <<CHOOSE key \in tied :
                   \A other \in tied \ {key} : StrLess(place(key), place(other))>>

PREFIX_ROUNDS == 20

\* line 74: the values of the attribute that start with the prefix
PrefixHits(attrs, attribute, prefix) ==
    {k \in 1..Len(attrs) :
        attrs[k].attribute = attribute /\ StartsWith(attrs[k].value, prefix)}

\* lines 74-78: the prefix of those values becomes &name;
ReplacePrefix(attrs, attribute, prefix, name) ==
    [k \in 1..Len(attrs) |->
        IF k \in PrefixHits(attrs, attribute, prefix)
        THEN Attr(attribute,
                 EntityRef(name) \o
                 SubSeq(attrs[k].value, Len(prefix) + 1, Len(attrs[k].value)))
        ELSE attrs[k]] \o <<>>

\* lines 68-83, one round: next is the name drawn at line 69 and best_prefix
\* the candidate of line 70
RECURSIVE PrefixLoop(_, _)
RECURSIVE PrefixRound(_, _, _, _)
PrefixRound(round, st, next, best_prefix) ==
    IF best_prefix = <<>> THEN st
    ELSE PrefixLoop(round + 1,
             IF Cardinality(PrefixHits(st.minimized, best_prefix[1].attribute,
                                       best_prefix[1].value)) < 2
             THEN [st EXCEPT !.minimized =
                      ReplacePrefix(st.minimized, best_prefix[1].attribute,
                                    best_prefix[1].value, next[1])]
             ELSE [minimized |-> ReplacePrefix(st.minimized, best_prefix[1].attribute,
                                               best_prefix[1].value, next[1]),
                   selected |-> Append(st.selected, <<next[1], best_prefix[1].value>>),
                   used_names |-> st.used_names \cup {next[1]},
                   name_index |-> next[2]])

PrefixNamed(round, st, next) ==
    PrefixRound(round, st, next,
                tl_best_prefix_entity_candidate(st.minimized, next[1]))

PrefixLoop(round, st) ==
    IF round > PREFIX_ROUNDS THEN st
    ELSE PrefixNamed(round, st,
             tl_next_available_entity_name(st.name_index, st.used_names))

\* lines 85-102: the DOCTYPE block of the selected entities
WithDoctype(svg_markup, st) ==
    IF st.selected = <<>> THEN svg_markup
    ELSE Document(svg_markup.xml_decl, <<st.selected>> \o svg_markup.doctypes,
                  st.minimized)

\* lines 59-83, from the whole-value aliases selected at lines 36-52
MinifyFrom(svg_markup, whole) ==
    WithDoctype(svg_markup,
        PrefixLoop(1, [minimized |-> ReplaceValues(svg_markup.attrs, whole.selected),
                       selected |-> whole.selected,
                       used_names |-> whole.used_names,
                       name_index |-> whole.name_index]))

tl_entity_minify(svg_markup) ==
    MinifyFrom(svg_markup,
        SelectValues(svg_markup.attrs,
            {svg_markup.attrs[k].value : k \in 1..Len(svg_markup.attrs)},
            [selected |-> <<>>, used_names |-> XML_PREDEFINED_ENTITIES,
             name_index |-> 0]))

\* len() of the document text
AttrLen(attribute) ==
    CASE attribute = "values" -> 6 [] attribute = "keyTimes" -> 8 [] OTHER -> 1
Size(doc) ==
    LET definitions(block) ==
            SumTo([e \in 1..Len(block) |-> DefinitionLen(block[e][1], block[e][2])],
                  Len(block))
        doctypes == [b \in 1..Len(doc.doctypes) |-> 15 + definitions(doc.doctypes[b]) + 2]
        elements == [k \in 1..Len(doc.attrs) |->
                        3 + AttrLen(doc.attrs[k].attribute) + 2
                          + Len(doc.attrs[k].value) + 3]
    IN  (IF doc.xml_decl THEN 21 ELSE 0) + SumTo(doctypes, Len(doctypes))
        + 40 + SumTo(elements, Len(elements)) + 6

\* xml.etree.ElementTree.fromstring: one DOCTYPE at most, no % in an entity
\* value (XML 1.0 production 9), every reference declared; the tree is the
\* attributes with their references expanded
Parse(doc) ==
    LET entities == IF doc.doctypes = <<>> THEN <<>> ELSE doc.doctypes[1]
        declared(name) == \E e \in 1..Len(entities) : entities[e][1] = name
        valueOf(name) ==
            entities[CHOOSE e \in 1..Len(entities) : entities[e][1] = name][2]
        isRef(value) == value # <<>> /\ value[1] = Code("&")
        nameEnd(value) == CHOOSE k \in 1..Len(value) :
                              /\ value[k] = Code(";")
                              /\ \A j \in 1..(k - 1) : value[j] # Code(";")
        nameOf(value) == SubSeq(value, 2, nameEnd(value) - 1)
        expand(value) ==
            IF isRef(value)
            THEN valueOf(nameOf(value)) \o SubSeq(value, nameEnd(value) + 1, Len(value))
            ELSE value
        well_formed ==
            /\ Len(doc.doctypes) <= 1
            /\ \A e \in 1..Len(entities) : ~Contains(entities[e][2], Code("%"))
            /\ \A k \in 1..Len(doc.attrs) :
                   isRef(doc.attrs[k].value) => declared(nameOf(doc.attrs[k].value))
    IN  IF well_formed
        THEN [well_formed |-> TRUE,
              attrs |-> [k \in 1..Len(doc.attrs) |->
                            Attr(doc.attrs[k].attribute, expand(doc.attrs[k].value))]]
        ELSE [well_formed |-> FALSE, attrs |-> <<>>]

\* values sharing their first 32 characters within a group
Grouped(group, tail) ==
    <<Code("a") + group>> \o Rep(Code("p"), 26) \o Rep(Code(";"), 5)
        \o <<Code("0") + tail>>

MinifyValues ==
    { <<Code("0")>>, Rep(Code("x"), 21), <<Code("%")>> \o Rep(Code("x"), 20),
      Grouped(0, 1), Grouped(0, 2) }

\* documents of a few elements, and documents of many groups of two values
MinifyCalls ==
    { [fn |-> "minify", doc |-> Document(xml_decl, <<>>, attrs)] :
        xml_decl \in BOOLEAN,
        attrs \in UNION { [1..n -> { Attr(attribute, value) :
                                        attribute \in {"values", "keyTimes", "x"},
                                        value \in MinifyValues }] :
                          n \in 1..MaxElements } }
    \cup
    { [fn |-> "minify",
       doc |-> Document(TRUE, <<>>,
                   [k \in 1..(2 * groups) |->
                       Attr("values", Grouped((k - 1) \div 2, 1 + ((k - 1) % 2)))])] :
        groups \in (MaxGroups - 2)..MaxGroups }

InitMinify ==
    /\ inputs = Idle
    /\ game_state = Idle
    /\ animator = Idle
    /\ twin = Idle
    /\ slot_in = Idle
    /\ slot_st = Idle
    /\ call \in MinifyCalls
    /\ ret = Pending

Minify ==
    /\ call.fn = "minify"
    /\ ret = Pending
    /\ ret' = [fn |-> "minify", out |-> tl_entity_minify(call.doc)]
    /\ UNCHANGED <<inputs, game_state, animator, twin, slot_in, slot_st, call>>

\* the minifier applied to its own output
MinifyAgain ==
    /\ call.fn = "minify"
    /\ ret.fn = "minify"
    /\ ret' = [fn |-> "minify_again", once |-> ret.out,
               out |-> tl_entity_minify(ret.out)]
    /\ UNCHANGED <<inputs, game_state, animator, twin, slot_in, slot_st, call>>

SpecMinify == InitMinify /\ [][Minify \/ MinifyAgain]_vars

(***************************************************************************)
(* The output providers: output/base.py, svg_provider.py,                  *)
(* webp_dataurl_provider.py and the entry of the SVG timeline encoder.     *)
(* A result is what encode raised, whether it returned, and the bytes: an  *)
(* empty sequence for b"", else one record describing the encoded file.    *)
(***************************************************************************)
Returned(bytes) == [raised |-> "none", returned |-> TRUE, bytes |-> bytes]
Raised(error) == [raised |-> error, returned |-> FALSE, bytes |-> <<>>]

\* Pillow's save of a non-empty frame list
PillowSave(format, frame_list, frame_duration) ==
    [format |-> format, frames |-> Len(frame_list), duration |-> frame_duration, loop |-> 0]

\* the dimension check accepting frames of one width
tl_resolve_timeline_dimensions_width_only(frames) ==
    IF \E k \in 2..Len(frames) : frames[k].width # frames[1].width
    THEN Raised("ValueError")
    ELSE Returned(<<frames[1].width, frames[1].height>>)

tl_resolve_timeline_dimensions(frames) ==
    IF \E k \in 2..Len(frames) :
           frames[k].width # frames[1].width \/ frames[k].height # frames[1].height
    THEN Raised("ValueError")
    ELSE Returned(<<frames[1].width, frames[1].height>>)

\* the animation directives of the document: the ship's x, and for every
\* bullet id of the frames its translate and its opacity
Directive(element, total) ==
    [element |-> element, dur |-> total, repeatCount |-> "indefinite"]
Directives(frames, total) ==
    LET ids == UNION {frames[k].bullets : k \in 1..Len(frames)}
        slots == SortedSlots(ids)
    IN  [k \in 1..(2 * Len(slots)) |->
            Directive(IF k % 2 = 1 THEN "animateTransform" ELSE "animate", total)]
        \o <<Directive("animate", total)>>

encode_svg_timeline_sequence(frames, frame_duration) ==
    LET total == total_duration_ms(Len(frames), frame_duration)
        dimensions == tl_resolve_timeline_dimensions(frames)
    IN  IF dimensions.raised # "none" THEN dimensions
        ELSE Returned(<<[format |-> "svg",
                         width |-> dimensions.bytes[1],
                         height |-> dimensions.bytes[2],
                         directives |-> Directives(frames, total)]>>)

PillowSequenceOutputProvider_encode(output_format, frames, frame_duration) ==
    IF frames = <<>> THEN Returned(<<>>)
    ELSE Returned(<<PillowSave(output_format, frames, frame_duration)>>)

SvgOutputProvider_encode(frames, frame_duration) ==
    IF frames = <<>> THEN Returned(<<>>)
    ELSE IF \E k \in 1..Len(frames) : frames[k].type # "SvgTimelineFrame"
    THEN Raised("TypeError")
    ELSE encode_svg_timeline_sequence(frames, frame_duration)

\* the data URL provider putting the scheme in front of no data
WebpDataUrlOutputProvider_encode_bare_scheme(frames, frame_duration) ==
    Returned(<<[format |-> "data:image/webp;base64",
                data |-> IF frames = <<>> THEN <<>>
                         ELSE <<PillowSave("webp", frames, frame_duration)>>]>>)

WebpDataUrlOutputProvider_encode(frames, frame_duration) ==
    IF frames = <<>> THEN Returned(<<>>)
    ELSE Returned(<<[format |-> "data:image/webp;base64",
                     data |-> <<PillowSave("webp", frames, frame_duration)>>]>>)

OutputProviders == {"gif", "webp", "svg", "webp_dataurl"}

Provider_encode(provider, frames, frame_duration) ==
    CASE provider = "svg" -> SvgOutputProvider_encode(frames, frame_duration)
      [] provider = "webp_dataurl" ->
             WebpDataUrlOutputProvider_encode(frames, frame_duration)
      [] OTHER -> PillowSequenceOutputProvider_encode(provider, frames, frame_duration)

\* frames of the kind the provider takes; the SVG provider is also offered
\* images
EncodeFrames(provider) ==
    UNION { [1..n -> [type : IF provider = "svg" THEN {"SvgTimelineFrame", "Image"}
                             ELSE {"Image"},
                      width : 1..MaxDimension,
                      height : 1..MaxDimension,
                      bullets : {{}, {1}}]] : n \in 0..MaxFrames }

EncodeCalls ==
    UNION { { [fn |-> "encode", provider |-> provider, frames |-> frames,
               frame_duration |-> frame_duration] :
                frames \in EncodeFrames(provider),
                frame_duration \in (-1)..MaxFrameDuration } :
            provider \in OutputProviders }

InitEncode ==
    /\ inputs = Idle
    /\ game_state = Idle
    /\ animator = Idle
    /\ twin = Idle
    /\ slot_in = Idle
    /\ slot_st = Idle
    /\ call \in EncodeCalls
    /\ ret = Pending

Encode ==
    /\ call.fn = "encode"
    /\ ret = Pending
    /\ ret' = [fn |-> "encode",
               result |-> Provider_encode(call.provider, call.frames,
                                          call.frame_duration)]
    /\ UNCHANGED <<inputs, game_state, animator, twin, slot_in, slot_st, call>>

SpecEncode == InitEncode /\ [][Encode]_vars

(***************************************************************************)
(* game/strategies/__init__.py and the strategy resolution of cli.py.      *)
(***************************************************************************)
DEFAULT_STRATEGY_NAME == "random"
STRATEGY_TYPES ==
    [name \in Strategies |->
        CASE name = "column" -> "ColumnStrategy"
          [] name = "row" -> "RowStrategy"
          [] OTHER -> "RandomStrategy"]

\* default=None
NoDefault == "<None>"

\* create_strategy falling back to the default strategy name
create_strategy_defaulting(name, default) ==
    LET strategy_name == IF name \in DOMAIN STRATEGY_TYPES THEN name
                         ELSE DEFAULT_STRATEGY_NAME
    IN  Returned(<<STRATEGY_TYPES[strategy_name]>>)

create_strategy(name, default) ==
    LET strategy_name == IF name \in DOMAIN STRATEGY_TYPES THEN name ELSE default
    IN  IF strategy_name = NoDefault THEN Raised("ValueError")
        ELSE IF strategy_name \notin DOMAIN STRATEGY_TYPES THEN Raised("KeyError")
        ELSE Returned(<<STRATEGY_TYPES[strategy_name]>>)

\* cli._resolve_strategy
resolve_strategy(strategy_name) ==
    LET created == create_strategy(strategy_name, NoDefault)
    IN  IF created.raised = "ValueError" THEN Raised("CLIError") ELSE created

StrategyNames == Strategies \cup {"spiral", "Column", ""}

StrategyCalls ==
    { [fn |-> "create_strategy", name |-> name, default |-> default] :
        name \in StrategyNames, default \in {NoDefault} \cup StrategyNames }
    \cup
    { [fn |-> "generate_output", name |-> name, output_path |-> output_path,
       fps |-> fps, watermark |-> watermark] :
        name \in StrategyNames, output_path \in {"out.gif", "out.webp", "out.svg"},
        fps \in 1..MaxFps, watermark \in BOOLEAN }

NoAnimator == [created |-> FALSE]

InitStrategy ==
    /\ inputs = Idle
    /\ game_state = Idle
    /\ animator = Idle
    /\ twin = Idle
    /\ slot_in = Idle
    /\ slot_st = Idle
    /\ call \in StrategyCalls
    /\ ret = Pending

CreateStrategy ==
    /\ call.fn = "create_strategy"
    /\ ret = Pending
    /\ ret' = [fn |-> "create_strategy",
               result |-> create_strategy(call.name, call.default)]
    /\ UNCHANGED <<inputs, game_state, animator, twin, slot_in, slot_st, call>>

\* _generate_output up to line 213
ResolveStrategy ==
    /\ call.fn = "generate_output"
    /\ ret = Pending
    /\ ret' = [fn |-> "resolve_strategy", result |-> resolve_strategy(call.name),
               animator |-> NoAnimator]
    /\ UNCHANGED <<inputs, game_state, animator, twin, slot_in, slot_st, call>>

\* _generate_output from line 216: encode_animation builds the Animator,
\* whose timeline creates the game state
EncodeAnimation ==
    /\ call.fn = "generate_output"
    /\ ret.fn = "resolve_strategy"
    /\ ret.result.raised = "none"
    /\ ret' = [fn |-> "encode_animation", result |-> ret.result,
               animator |-> [created |-> TRUE, strategy |-> ret.result.bytes[1],
                             fps |-> call.fps, watermark |-> call.watermark]]
    /\ UNCHANGED <<inputs, game_state, animator, twin, slot_in, slot_st, call>>

SpecStrategy == InitStrategy /\ [][CreateStrategy \/ ResolveStrategy \/ EncodeAnimation]_vars

\* the grid of one week with the levels 1, 0, 2, 0, 0, 3, 0
OneWeek == << CellOf(0, 0, 1), CellOf(0, 2, 2), CellOf(0, 5, 3) >>

\* One uncapped timeline over that week, or over the grid without any
\* contribution (the only one whose tail loop ends by is_complete()), under
\* each policy
InitOneWeek ==
    /\ \E grid \in {OneWeek, <<>>}, strategy \in Strategies, fps \in 1..MaxFps,
          factory \in GameStateFactories :
              RunInit(NewRun(grid, strategy, fps, None, factory))
    /\ twin = Idle
    /\ slot_in = Idle
    /\ slot_st = Idle
    /\ call = Idle
    /\ ret = Idle

SpecOneWeek == InitOneWeek /\ [][Next]_vars

(***************************************************************************)
(* Enemy elements of the timeline encoder (output/_svg_timeline_encoder.py, *)
(* _tl_enemy_elements), for enemies that keep their health, so that no     *)
(* <animate> is written.  A piece of markup is its attribute values, as    *)
(* the minifier sees them, and the length of the text around them.         *)
(***************************************************************************)
\* str() of a non-negative int, as _tl_num writes it
RECURSIVE tl_num(_)
tl_num(value) ==
    IF value < 10 THEN <<Code("0") + value>>
    ELSE tl_num(value \div 10) \o <<Code("0") + (value % 10)>>

\* RenderContext.get_cell_position along one axis (not in the sources):
\* padding + cell * (cell_size + cell_spacing)
get_cell_position(cell) == 40 + cell * 15

\* "translate(": t r a n s l a t e (
TranslateOpen == <<116, 114, 97, 110, 115, 108, 97, 116, 101, 40>>

\* f'<g transform="translate({_tl_num(x)} 0)">'
ColumnTransform(x) == Attr("transform", TranslateOpen \o tl_num(x) \o <<32, 48, 41>>)
\* the same group along a row: translate(0 {y})
RowTransform(y) == Attr("transform", TranslateOpen \o <<48, 32>> \o tl_num(y) \o <<41>>)

\* f'<use href="#e" y="{_tl_num(y)}" class="{initial_fill_class}">' + "</use>"
UseElement(axis, position) ==
    << Attr("href", <<35, 101>>), Attr(axis, tl_num(position)),
       Attr("class", <<Code("a")>>) >>

\* len('<g transform="">') + len("</g>"), and
\* len('<use href="" y="" class="">') + len("</use>")
GroupMarkupLen == 20
UseMarkupLen == 33

\* the enemies of a line (a column or a row) in the order sorted() gives
RECURSIVE LineEnemies(_, _)
LineEnemies(axis, positions) ==
    IF positions = {} THEN <<>>
    ELSE LET position == CHOOSE p \in positions : \A q \in positions : p <= q
         IN  UseElement(axis, get_cell_position(position))
                 \o LineEnemies(axis, positions \ {position})

\* lines 275-349: one <g> per column x_cell, in sorted order
RECURSIVE tl_enemy_elements(_, _)
tl_enemy_elements(enemies, columns) ==
    IF columns = {} THEN <<>>
    ELSE LET x_cell == CHOOSE c \in columns : \A d \in columns : c <= d
         IN  <<ColumnTransform(get_cell_position(x_cell))>>
                 \o LineEnemies("y", {e.y : e \in {e \in enemies : e.x = x_cell}})
                 \o tl_enemy_elements(enemies, columns \ {x_cell})

\* the grouping per row of the regression test (not in the sources): the
\* transpose of the grouping per column
RECURSIVE tl_enemy_elements_by_row(_, _)
tl_enemy_elements_by_row(enemies, rows) ==
    IF rows = {} THEN <<>>
    ELSE LET y_cell == CHOOSE c \in rows : \A d \in rows : c <= d
         IN  <<RowTransform(get_cell_position(y_cell))>>
                 \o LineEnemies("x", {e.x : e \in {e \in enemies : e.y = y_cell}})
                 \o tl_enemy_elements_by_row(enemies, rows \ {y_cell})

\* len() of the enemy part of the encoded document after _tl_entity_minify
\* (lines 99-102): the values, the markup around them and the DOCTYPE block
DoctypeLen(block) ==
    IF block = <<>> THEN 0
    ELSE 15 + 2 + SumTo([e \in 1..Len(block) |->
                            DefinitionLen(block[e][1], block[e][2])], Len(block))

ValuesLen(attrs) ==
    SumTo([k \in 1..Len(attrs) |-> Len(attrs[k].value)], Len(attrs))

MinifiedLen(doc) ==
    ValuesLen(doc.attrs)
    + DoctypeLen(IF doc.doctypes = <<>> THEN <<>> ELSE doc.doctypes[1])

EnemyMarkupLen(attrs, enemy_count) ==
    Cardinality({k \in 1..Len(attrs) : attrs[k].attribute = "transform"})
        * GroupMarkupLen
    + enemy_count * UseMarkupLen
    + MinifiedLen(tl_entity_minify(Document(TRUE, <<>>, attrs)))

\* encode_svg_timeline_sequence, lines 64-66 and 94: always per column
encode_enemies(enemies) ==
    EnemyMarkupLen(tl_enemy_elements(enemies, {e.x : e \in enemies}),
                   Cardinality(enemies))
encode_enemies_by_row(enemies) ==
    EnemyMarkupLen(tl_enemy_elements_by_row(enemies, {e.y : e \in enemies}),
                   Cardinality(enemies))

EnemyCells == {0, 1, 2, MaxColumn}
GroupingCalls ==
    { [fn |-> "encode_enemies", enemies |-> enemies] :
        enemies \in (SUBSET { [x |-> x, y |-> y] : x \in EnemyCells, y \in 0..MaxRow })
                        \ {{}} }

InitGrouping ==
    /\ inputs = Idle
    /\ game_state = Idle
    /\ animator = Idle
    /\ twin = Idle
    /\ slot_in = Idle
    /\ slot_st = Idle
    /\ call \in GroupingCalls
    /\ ret = Pending

EncodeEnemies ==
    /\ call.fn = "encode_enemies"
    /\ ret = Pending
    /\ ret' = [fn |-> "encode_enemies",
               adaptive |-> encode_enemies(call.enemies),
               column_only |-> encode_enemies(call.enemies),
               row_only |-> encode_enemies_by_row(call.enemies)]
    /\ UNCHANGED <<inputs, game_state, animator, twin, slot_in, slot_st, call>>

SpecGrouping == InitGrouping /\ [][EncodeEnemies]_vars

(***************************************************************************)
(* list(generate_svg_timeline_frames(animator, max_frames))                *)
(* (game/svg_animation.py).  The engine updates its stars, ship, enemies,  *)
(* bullets and explosions in place; a kept frame is the values written at  *)
(* the snapshot together with the fields through which it still refers to  *)
(* objects of the engine.                                                  *)
(***************************************************************************)
\* a frame whose stars are the star dicts of the starfield themselves
timeline_frame_sharing_stars(gs, time_ms) ==
    [frame |-> snapshot_svg_timeline_frame(gs, time_ms), refers |-> {"stars"}]

\* svg_timeline.py lines 60-130: every field is an int, a float, a str or a
\* tuple of new frozen dataclasses of such (particle_angles through tuple())
timeline_frame(gs, time_ms) ==
    [frame |-> snapshot_svg_timeline_frame(gs, time_ms), refers |-> {}]

\* what reading the fields of a kept frame gives while the engine is in gs
ReadField(kept, field, now) ==
    IF field \in kept.refers THEN now[field] ELSE kept.frame[field]

ReadFrameNow(kept, now) ==
    [time_ms |-> kept.frame.time_ms,
     ship_x |-> ReadField(kept, "ship_x", now),
     stars |-> ReadField(kept, "stars", now),
     enemies |-> ReadField(kept, "enemies", now),
     bullets |-> ReadField(kept, "bullets", now),
     explosions |-> ReadField(kept, "explosions", now)]

ReadFrame(kept, gs) ==
    ReadFrameNow(kept, snapshot_svg_timeline_frame(gs, kept.frame.time_ms))

InitFrames ==
    /\ \E grid \in Grids, strategy \in Strategies, fps \in 1..MaxFps,
          max_frames \in 1..MaxKeptFrames :
              RunInit(NewRun(grid, strategy, fps, max_frames, "GameState"))
    /\ twin = Idle
    /\ slot_in = Idle
    /\ slot_st = Idle
    /\ call = [fn |-> "generate_svg_timeline_frames"]
    /\ ret = [fn |-> "frames", frames |-> <<>>, taken |-> <<>>]

\* a step of the timeline that yields: the for loop of lines 16-23 appends
\* the snapshot; taken is the frame as it was then (history)
YieldFrameOf(r) ==
    /\ r.animator.rendered > animator.rendered
    /\ game_state' = r.game_state
    /\ animator' = r.animator
    /\ ret' = [ret EXCEPT
          !.frames = Append(@, timeline_frame(r.game_state, animator.elapsed_ms)),
          !.taken = Append(@, snapshot_svg_timeline_frame(
                                  r.game_state, animator.elapsed_ms))]

YieldFrame ==
    /\ call.fn = "generate_svg_timeline_frames"
    /\ ~Finished(Run)
    /\ \E draws \in Draws(inputs.fps) : YieldFrameOf(FrameSteps_step(Run, draws))
    /\ UNCHANGED <<inputs, twin, slot_in, slot_st, call>>

\* a step of the timeline that yields nothing
StepTimelineOf(r) ==
    /\ r.animator.rendered = animator.rendered
    /\ game_state' = r.game_state
    /\ animator' = r.animator

StepTimeline ==
    /\ call.fn = "generate_svg_timeline_frames"
    /\ ~Finished(Run)
    /\ \E draws \in Draws(inputs.fps) : StepTimelineOf(FrameSteps_step(Run, draws))
    /\ UNCHANGED <<inputs, twin, slot_in, slot_st, call, ret>>

SpecFrames == InitFrames /\ [][YieldFrame \/ StepTimeline]_vars

(***************************************************************************)
(* The two collinearity compressors on longer tracks: samples at a fixed   *)
(* time step whose slope grows by the same amount from one sample to the   *)
(* next (bend = 0 is a straight line), with or without a forced index.     *)
(***************************************************************************)
CurveTimes(n, step) == [j \in 1..n |-> (j - 1) * step]
\* value j (from 1) of the curve: the slopes 0, bend, 2 * bend, ... per sample
CurveValues(n, bend) == [j \in 1..n |-> bend * (((j - 1) * (j - 2)) \div 2)]

CurveCalls ==
    { [fn |-> "compress_curve", times |-> CurveTimes(n, step),
       values |-> CurveValues(n, bend), forced_indices |-> forced_indices] :
        n \in 3..MaxCurveLen, step \in 1..MaxTimeStep, bend \in 0..(2 * EPS),
        forced_indices \in {{}, {1}, {2, 3}} }

InitCurves ==
    /\ inputs = Idle
    /\ game_state = Idle
    /\ animator = Idle
    /\ twin = Idle
    /\ slot_in = Idle
    /\ slot_st = Idle
    /\ call \in CurveCalls
    /\ ret = Pending

CompressLinearScalar ==
    /\ call.fn = "compress_curve"
    /\ ret = Pending
    /\ ret' = [fn |-> "linear_scalar",
               track |-> tl_compress_linear_scalar_track(
                             call.times, call.values, call.forced_indices)]
    /\ UNCHANGED <<inputs, game_state, animator, twin, slot_in, slot_st, call>>

\* the curve as the x of points whose y is a straight line
CompressPoints ==
    /\ call.fn = "compress_curve"
    /\ ret = Pending
    /\ ret' = [fn |-> "points",
               track |-> tl_compress_points_with_forced(
                             [j \in 1..Len(call.values) |-> <<call.values[j], j>>],
                             call.times, call.forced_indices)]
    /\ UNCHANGED <<inputs, game_state, animator, twin, slot_in, slot_st, call>>

SpecCurves == InitCurves /\ [][CompressLinearScalar \/ CompressPoints]_vars

(***************************************************************************)
(* One bullet slot of _tl_bullet_elements (output/_svg_timeline_encoder.py *)
(* lines 366-419) and the forced indices of the collinearity compressors.  *)
(* A slot track holds per frame a bullet <<x, y>> in cells or NoBullet;    *)
(* frame k (from 0) carries the animator's time_ms = k * (1000 // fps),    *)
(* which is 0 for every frame once fps exceeds 1000, while the encoder     *)
(* loops over max(1, len(frames) * max(1, 1000 // fps)).  Points are in    *)
(* pixels: cells are 15 pixels apart and sample times at most              *)
(* MaxFrameDuration apart, so two slopes that differ at all differ by more *)
(* than EPS, as they differ by more than 1e-6 in the code.  Opacities are  *)
(* 0 and 1.                                                                *)
(***************************************************************************)
NoBullet == <<>>

\* context.get_cell_position plus half a cell, lines 384-388 (cell_size is
\* not in the sources; half of it is taken as 6)
BulletPoint(bullet) ==
    <<get_cell_position(bullet[1]) + 6, get_cell_position(bullet[2]) + 6>>

\* values[i] >= threshold with the default threshold of 0.5
OpacityOn(value) == 2 * value >= 1

\* _tl_transition_forced_indices, lines 709-721; the indices are the code's
tl_transition_forced_indices(values) ==
    IF Len(values) = 0 THEN {0}
    ELSE {0, Len(values) - 1}
         \cup UNION { {index - 1, index} :
                        index \in {i \in 1..(Len(values) - 1) :
                                     OpacityOn(values[i]) # OpacityOn(values[i + 1])} }

\* the loop of lines 382-393: position_values with the last point carried
\* over the frames without a bullet
RECURSIVE BulletPositions(_, _, _, _)
BulletPositions(slot_track, i, last_point, position_values) ==
    IF i > Len(slot_track) THEN position_values
    ELSE LET point == IF slot_track[i] # NoBullet
                      THEN BulletPoint(slot_track[i]) ELSE last_point
         IN  BulletPositions(slot_track, i + 1, point, Append(position_values, point))

BulletOpacities(slot_track) ==
    [i \in 1..Len(slot_track) |-> IF slot_track[i] # NoBullet THEN 1 ELSE 0]

\* lines 366-403 for one slot track: the samples, the forced indices, the
\* compressed and the padded position track
tl_bullet_slot(slot_track, frame_duration) ==
    IF \A i \in 1..Len(slot_track) : slot_track[i] = NoBullet
    THEN [fn |-> "bullet_slot", skipped |-> TRUE]
    ELSE LET first_active == slot_track[CHOOSE i \in 1..Len(slot_track) :
                                 /\ slot_track[i] # NoBullet
                                 /\ \A j \in 1..(i - 1) : slot_track[j] = NoBullet]
             total == total_duration_ms(Len(slot_track), frame_duration)
             positions == BulletPositions(slot_track, 1, BulletPoint(first_active), <<>>)
             opacities == BulletOpacities(slot_track)
             times == [k \in 1..Len(slot_track) |-> (k - 1) * frame_duration] \o <<total>>
             position_values == Append(positions, Last(positions))
             opacity_values == Append(opacities, Last(opacities))
             forced_indices == tl_transition_forced_indices(opacity_values)
             compressed == tl_compress_points_with_forced(position_values, times,
                                                          forced_indices)
         IN  [fn |-> "bullet_slot", skipped |-> FALSE,
              times |-> times,
              position_values |-> position_values,
              opacity_values |-> opacity_values,
              forced_indices |-> forced_indices,
              compressed |-> compressed,
              track |-> tl_pad_local_track(compressed.times, compressed.values, total)]

\* the bullets of the slot tracks: two columns, two rows
BulletStates == {NoBullet, <<0, 0>>, <<0, 1>>, <<1, 1>>}

\* a slot track over 1..MaxSlotTrackLen frames at one frame duration, or
\* samples handed to the two compressors with forced indices inside and
\* outside the input
ForcedCalls ==
    { [fn |-> "bullet_slot", slot_track |-> slot_track,
       frame_duration |-> frame_duration] :
        slot_track \in UNION {[1..n -> BulletStates] : n \in 1..MaxSlotTrackLen},
        frame_duration \in FrameDurations }
    \cup
    { [fn |-> "compress_forced", times |-> RunningSum(steps),
       values |-> [i \in 1..Len(steps) |-> i * i],
       forced_indices |-> forced_indices] :
        steps \in UNION {[1..n -> 0..MaxTimeStep] : n \in 1..MaxSlotTrackLen},
        forced_indices \in SUBSET (0..MaxSlotTrackLen) }

InitForced ==
    /\ inputs = Idle
    /\ game_state = Idle
    /\ animator = Idle
    /\ twin = Idle
    /\ slot_in = Idle
    /\ slot_st = Idle
    /\ call \in ForcedCalls
    /\ ret = Pending

\* the position track of one bullet slot
BulletSlotElement ==
    /\ call.fn = "bullet_slot"
    /\ ret = Pending
    /\ ret' = tl_bullet_slot(call.slot_track, call.frame_duration)
    /\ UNCHANGED <<inputs, game_state, animator, twin, slot_in, slot_st, call>>

\* both collinearity compressors on the same samples, the values as the x
\* of points of constant y
CompressForced ==
    /\ call.fn = "compress_forced"
    /\ ret = Pending
    /\ ret' = [fn |-> "compress_forced",
               linear_scalar_track |->
                   tl_compress_linear_scalar_track(call.times, call.values,
                                                   call.forced_indices),
               points_with_forced |->
                   tl_compress_points_with_forced(
                       [i \in 1..Len(call.values) |-> <<call.values[i], 0>>],
                       call.times, call.forced_indices)]
    /\ UNCHANGED <<inputs, game_state, animator, twin, slot_in, slot_st, call>>

SpecForced == InitForced /\ [][BulletSlotElement \/ CompressForced]_vars

(***************************************************************************)
(* The alias names of one run of _tl_entity_minify                         *)
(* (output/_svg_entity_minifier.py lines 36-83).  What the loops do with   *)
(* name_index, used_names and selected depends on the document only        *)
(* through the outcome of their tests: a value is aliased or passed over   *)
(* (lines 40-49), a prefix candidate is found or not (line 71) and is      *)
(* replaced twice or more, or fewer times (line 79).  A call gives these   *)
(* outcomes: the number of ordered values, the values passed over (every   *)
(* skip_every-th, none for 0) and the outcomes of the prefix rounds that   *)
(* find a candidate.  selected holds the names only.                       *)
(***************************************************************************)
NameCalls ==
    { [fn |-> "minify_names", values |-> values, skip_every |-> skip_every,
       prefixes |-> prefixes] :
        values \in {1, ALPHABET_LEN + 1, MaxAliases},
        skip_every \in {0, 2, 3},
        prefixes \in { <<>>, <<"declared", "few", "declared">>,
                       [k \in 1..(PREFIX_ROUNDS + 2) |-> "declared"] } }

InitNames ==
    /\ inputs = Idle
    /\ game_state = Idle
    /\ animator = Idle
    /\ twin = Idle
    /\ slot_in = Idle
    /\ slot_st = Idle
    /\ call \in NameCalls
    /\ ret = Pending

NamesUnchanged == UNCHANGED <<inputs, game_state, animator, twin, slot_in, slot_st, call>>

\* lines 36-38
StartSelection ==
    /\ call.fn = "minify_names"
    /\ ret = Pending
    /\ ret' = [fn |-> "names", pc |-> "values", visited |-> 0, round |-> 1,
               selected |-> <<>>, used_names |-> XML_PREDEFINED_ENTITIES,
               name_index |-> 0]
    /\ NamesUnchanged

PassedOver(position) ==
    call.skip_every # 0 /\ position % call.skip_every = 0

\* lines 50-52 and 81-83 with the name of line 43 or 69
Declare(st, next) ==
    [st EXCEPT !.selected = Append(@, next[1]),
               !.used_names = @ \cup {next[1]},
               !.name_index = next[2]]

\* lines 39-52 for a value that is aliased
SelectAlias ==
    /\ ret.fn = "names" /\ ret.pc = "values"
    /\ ret.visited < call.values
    /\ ~PassedOver(ret.visited + 1)
    /\ ret' = [Declare(ret, tl_next_available_entity_name(ret.name_index,
                                                          ret.used_names))
                  EXCEPT !.visited = @ + 1]
    /\ NamesUnchanged

\* lines 39-49 for a value with count < 2 or savings <= 0
SkipValue ==
    /\ ret.fn = "names" /\ ret.pc = "values"
    /\ ret.visited < call.values
    /\ PassedOver(ret.visited + 1)
    /\ ret' = [ret EXCEPT !.visited = @ + 1]
    /\ NamesUnchanged

\* the for loop of line 39 is exhausted
EndValues ==
    /\ ret.fn = "names" /\ ret.pc = "values"
    /\ ret.visited = call.values
    /\ ret' = [ret EXCEPT !.pc = "prefixes"]
    /\ NamesUnchanged

PrefixRoundOpen ==
    /\ ret.fn = "names" /\ ret.pc = "prefixes"
    /\ ret.round <= PREFIX_ROUNDS
    /\ ret.round <= Len(call.prefixes)

\* lines 69-83 for a prefix replaced twice or more
PrefixAlias ==
    /\ PrefixRoundOpen
    /\ call.prefixes[ret.round] = "declared"
    /\ ret' = [Declare(ret, tl_next_available_entity_name(ret.name_index,
                                                          ret.used_names))
                  EXCEPT !.round = @ + 1]
    /\ NamesUnchanged

\* lines 69-80 for a prefix replaced fewer than two times
PrefixFew ==
    /\ PrefixRoundOpen
    /\ call.prefixes[ret.round] = "few"
    /\ ret' = [ret EXCEPT !.round = @ + 1]
    /\ NamesUnchanged

\* line 68 is exhausted, or line 72 breaks
EndPrefixes ==
    /\ ret.fn = "names" /\ ret.pc = "prefixes"
    /\ ret.round > PREFIX_ROUNDS \/ ret.round > Len(call.prefixes)
    /\ ret' = [ret EXCEPT !.pc = "done"]
    /\ NamesUnchanged

SpecNames ==
    InitNames /\ [][StartSelection \/ SelectAlias \/ SkipValue \/ EndValues
                    \/ PrefixAlias \/ PrefixFew \/ EndPrefixes]_vars

(***************************************************************************)
(* One choice of RandomStrategy (game/strategies/random_strategy.py lines  *)
(* 44-46) in a game state with enemies in one or two columns, or in nine   *)
(* or ten, more than MAX_CANDIDATE_COLUMNS, the ship on or off a column of *)
(* enemies.  The leftmost column of enemies holds a second enemy below the *)
(* first.                                                                  *)
(***************************************************************************)
ChoiceColumns == (0..8) \cup {MaxColumn}

ChoiceEnemies(columns, fps) ==
    LET sorted == SortedSlots(columns)
    IN  [k \in 1..Len(sorted) |->
            [x |-> sorted[k] * Cell(fps), y |-> 0, health |-> 1]]
        \o <<[x |-> sorted[1] * Cell(fps), y |-> Cell(fps), health |-> 2]>>

ChoiceCalls ==
    { [fn |-> "choose", fps |-> fps,
       gs |-> [enemies |-> ChoiceEnemies(columns, fps),
               ship |-> [x |-> ship_x * Cell(fps)]]] :
        fps \in 1..MaxFps,
        columns \in {c \in SUBSET ChoiceColumns :
                        Cardinality(c) \in {1, 2} \/ Cardinality(c) > MAX_CANDIDATE_COLUMNS},
        ship_x \in {0, 4, MaxColumn} }

InitChoice ==
    /\ inputs = Idle
    /\ game_state = Idle
    /\ animator = Idle
    /\ twin = Idle
    /\ slot_in = Idle
    /\ slot_st = Idle
    /\ call \in ChoiceCalls
    /\ ret = Pending

ChooseWith(rng, candidate_columns) ==
    ret' = [fn |-> "choose", rng |-> rng,
            candidate_columns |-> candidate_columns,
            target_column |-> RandomStrategy_choose_target_column(
                                  call.gs, candidate_columns, rng, call.fps)]

\* lines 44-45 with the value the generator gives
ChooseColumn ==
    /\ call.fn = "choose"
    /\ ret = Pending
    /\ \E rng \in 0..(RngModulus - 1) :
           ChooseWith(rng, RandomStrategy_candidate_columns(call.gs))
    /\ UNCHANGED <<inputs, game_state, animator, twin, slot_in, slot_st, call>>

\* line 46
LowestEnemy ==
    /\ call.fn = "choose"
    /\ ret.fn = "choose"
    /\ ret' = [fn |-> "lowest", target_column |-> ret.target_column,
               found |-> \E k \in 1..Len(call.gs.enemies) :
                             call.gs.enemies[k].x = ret.target_column,
               target_enemy |-> RandomStrategy_lowest_enemy_in_column(
                                    call.gs, ret.target_column)]
    /\ UNCHANGED <<inputs, game_state, animator, twin, slot_in, slot_st, call>>

SpecChoice == InitChoice /\ [][ChooseColumn \/ LowestEnemy]_vars

(***************************************************************************)
(* Timelines at a frame rate above 1 / SHIP_SHOOT_COOLDOWN, where the ship *)
(* waits for its cooldown, next to the frame rates of Init; uncapped, with  *)
(* the factory that returns a GameState.                                    *)
(***************************************************************************)
InitCooldown ==
    /\ \E grid \in Grids, strategy \in Strategies,
          fps \in (1..MaxFps) \cup {CooldownFps} :
              RunInit(NewRun(grid, strategy, fps, None, "GameState"))
    /\ twin = Idle
    /\ slot_in = Idle
    /\ slot_st = Idle
    /\ call = Idle
    /\ ret = Idle

\* The generators are driven by a for loop: a timeline that can take a step
\* takes it.  This is WF_animator(Next) with ENABLED <<Next>>_animator
\* written as the state predicate it equals: every place of _frame_steps but
\* "done" and "raised" has a step, and every step changes animator.
FairCooldown == []<>Finished(Run) \/ []<><<Next>>_animator

SpecCooldown == InitCooldown /\ [][Next]_vars /\ FairCooldown

(***************************************************************************)
(* Timelines over grids with two plain enemies in one column and the boss  *)
(* in another, and over the grid without contributions; uncapped, with the *)
(* factory that returns a GameState.                                        *)
(***************************************************************************)
ColumnGrids ==
    { <<>>,
      << CellOf(10, 2, 1), CellOf(10, 5, 1), CellOf(40, 3, 3) >>,
      << CellOf(10, 4, 1), CellOf(10, 5, 1), CellOf(40, 3, 3) >> }

InitColumn ==
    /\ \E grid \in ColumnGrids, strategy \in Strategies, fps \in 1..MaxFps :
              RunInit(NewRun(grid, strategy, fps, None, "GameState"))
    /\ twin = Idle
    /\ slot_in = Idle
    /\ slot_st = Idle
    /\ call = Idle
    /\ ret = Idle

SpecColumn == InitColumn /\ [][Next]_vars

(***************************************************************************)
(* Properties.                                                             *)
(***************************************************************************)
Uncapped == inputs.max_frames = None

\* the take_damage calls of the tick that led to this state
Hits ==
    IF HasGameState(Run)
    THEN {game_state.hits[k] : k \in 1..Len(game_state.hits)}
    ELSE {}

Lethal(h) == h.health_after <= 0

\* C1: for a fixed grid, policy and fps, two independently constructed
\* Animator runs yield the same number of frames, frame by frame the same
\* snapshot (time_ms, ship_x, stars, enemies, bullets, explosions), and end
\* with the same score.
C1_TwoRunsAgree ==
    twin.inputs.max_frames = inputs.max_frames =>
        /\ animator.rendered = twin.animator.rendered
        /\ animator.last_frame = twin.animator.last_frame
        /\ (HasGameState(Run) /\ HasGameState(twin) =>
                game_state.score = twin.game_state.score)

\* C2: iterating iter_state_timeline with max_frames=None ends for every
\* grid and policy by running off the end of _frame_steps: a timeline that
\* has a game state and has come to its end has stopped normally.
C2_UncappedRunStopsNormally ==
    (Uncapped /\ HasGameState(Run) /\ Finished(Run)) => animator.pc = "done"

\* what the counters of the final loops may be
C3_TailState ==
    HasGameState(Run) =>
        /\ animator.tail_ticks <= 100
        /\ animator.after_actions <= 105
        /\ animator.settle <= 5
        /\ (Uncapped /\ animator.pc # "raised" =>
                animator.after_actions = animator.tail_ticks + animator.settle)
        /\ (animator.pc = "settle" =>
                Len(game_state.enemies) = 0 \/ animator.tail_ticks = 100)
        /\ (animator.pc = "tail" => animator.tail_ticks < 100)
        /\ (Uncapped /\ animator.pc = "done" => animator.settle = 5)

\* what a step of the final loops does
C3_TailStep ==
    /\ (animator.pc = "tail" /\ Len(game_state.enemies) = 0) =>
           (animator'.pc = "settle" /\ animator'.ticks = animator.ticks
            /\ animator'.rendered = animator.rendered)
    /\ (animator.pc = "tail" /\ Len(game_state.enemies) > 0) =>
           (animator'.ticks = animator.ticks + 1
            /\ animator'.tail_ticks = animator.tail_ticks + 1)
    /\ (animator.pc = "settle") =>
           (animator'.ticks = animator.ticks /\ game_state' = game_state)

\* C3: once the policy is exhausted the sampler makes one tick per frame
\* until no enemy is left or 100 ticks were made, then emits exactly 5
\* frames; at most 105 frames follow the last action, and no tick is made
\* when the enemies are already gone.
C3_TailBounded == []C3_TailState /\ [][C3_TailStep]_vars

C3_Witness ==
    /\ HasGameState(Run) /\ Uncapped /\ animator.pc = "done"
    /\ animator.tail_ticks = 100 /\ animator.after_actions = 105
    /\ Len(game_state.enemies) > 0

\* the step that yields the first frame
C4_FirstFrameStep ==
    (animator.rendered = 0 /\ animator'.rendered = 1) =>
        /\ animator.ticks = 0 /\ animator.moves = 0 /\ animator.shots = 0
        /\ ~animator.gen.started
        /\ \E draws \in Draws(inputs.fps) :
               game_state = GameState_init(inputs.contribution_data, inputs.fps, draws)
        /\ game_state' = game_state
        /\ animator'.last_frame = snapshot_svg_timeline_frame(game_state, 0)
        /\ animator'.ticks = 0 /\ animator'.moves = 0 /\ animator'.shots = 0
        /\ ~animator'.gen.started

\* C4: the first frame has elapsed time 0 and shows the state the
\* constructor left: when it is emitted the policy has not been advanced and
\* there has been no move_to, no shoot and no animate call.
C4_FirstFrameIsInitial == [][C4_FirstFrameStep]_vars

C4_Witness ==
    /\ HasGameState(Run) /\ animator.rendered = 1 /\ animator.pc = "for"
    /\ animator.last_frame.time_ms = 0
    /\ Len(animator.last_frame.enemies) = 2
    /\ inputs.strategy = "random"

\* C5: with max_frames = n the timeline yields min(n, N) frames, N the
\* length of the uncapped timeline of the same inputs, and they are the
\* first frames of the uncapped timeline; n = 0 yields none.
C5_CappedIsPrefix ==
    (inputs.max_frames # None /\ twin.inputs.max_frames = None) =>
        /\ animator.rendered = Min(inputs.max_frames, twin.animator.rendered)
        /\ (animator.rendered = twin.animator.rendered =>
                animator.last_frame = twin.animator.last_frame)

\* C6: a hit lowers the health of the enemy by exactly 1; the hit that
\* brings a regular enemy to 0 adds exactly 100 to the score and takes the
\* enemy out of the list; a hit that leaves health above 0 changes neither
\* score nor membership, for regular enemies and for the boss.
C6_HitEffect ==
    \A h \in Hits :
        /\ h.health_after = h.health_before - 1
        /\ (h.kind = "Enemy" /\ Lethal(h)) =>
               (h.score_after = h.score_before + 100 /\ ~h.in_list_after)
        /\ ~Lethal(h) =>
               (h.score_after = h.score_before /\ h.in_list_after)

\* the second hit on a regular enemy that started with health 2
C6_Witness ==
    /\ \E h \in Hits :
           /\ h.kind = "Enemy" /\ Lethal(h) /\ h.health_before = 1
           /\ inputs.contribution_data[h.enemy_id].level = 2
           /\ ~h.in_list_after
    /\ game_state.score = 100

\* C7: the hit that destroys the boss raises the score by exactly 1000 in
\* all, Enemy.take_damage's share included, and takes the boss out of the
\* enemy list.
C7_BossWorth1000 ==
    \A h \in Hits :
        (h.kind = "Boss" /\ Lethal(h)) =>
            (h.score_after = h.score_before + 1000 /\ ~h.in_list_after)

C9_BossInBounds ==
    HasGameState(Run) =>
        \A k \in 1..Len(game_state.enemies) :
            game_state.enemies[k].kind = "Boss" =>
                /\ 0 <= game_state.enemies[k].x
                /\ game_state.enemies[k].x
                       <= (GAME_GRID_WIDTH - width_cells) * Cell(inputs.fps)


\* the ids held by slot s (from 1) in some frame
SlotIds(s) ==
    {slot_st.slot_tracks[s][f].id : f \in 1..Len(slot_st.slot_tracks[s])} \ {None}

\* the frames in which slot s holds id
SlotFramesOf(s, id) ==
    {f \in 1..Len(slot_st.slot_tracks[s]) : slot_st.slot_tracks[s][f].id = id}

\* the ranges, first frame to last, of a and b in slot s have no frame in common
RangesApart(s, a, b) ==
    LET fa == SlotFramesOf(s, a)
        fb == SlotFramesOf(s, b)
        first(fs) == CHOOSE f \in fs : \A g \in fs : f <= g
        last(fs) == CHOOSE f \in fs : \A g \in fs : g <= f
    IN  last(fa) < first(fb) \/ last(fb) < first(fa)

\* id is in the frame maps of one unbroken run of frames
NeverReappears(id) ==
    \A f1, f2, f3 \in 1..Len(slot_in.frame_maps) :
        (f1 < f2 /\ f2 < f3 /\ id \in slot_in.frame_maps[f1]
                            /\ id \in slot_in.frame_maps[f3])
            => id \in slot_in.frame_maps[f2]

\* C10 as stated: two distinct ids of one slot have frame ranges (first to
\* last frame) that never overlap, in both reuse modes and for every sequence
\* of frame maps, reappearing ids included.
C10_RangesNeverOverlap ==
    \A s \in 1..Len(slot_st.slot_tracks) :
        \A a, b \in SlotIds(s) : a # b => RangesApart(s, a, b)

\* C10 amended: no two ids hold the same slot at the same time, and the
\* frame ranges of two ids of one slot do not overlap when neither id
\* disappears and reappears.
C10_SlotsNotShared ==
    /\ \A a, b \in DOMAIN slot_st.active_slots :
           a # b => slot_st.active_slots[a] # slot_st.active_slots[b]
    /\ \A a \in DOMAIN slot_st.active_slots :
           /\ slot_st.active_slots[a] < Len(slot_st.slot_tracks)
           /\ \A k \in 1..Len(slot_st.free_slots) :
                  slot_st.free_slots[k] # slot_st.active_slots[a]
    /\ \A s \in 1..Len(slot_st.slot_tracks) :
           \A a, b \in SlotIds(s) :
               (a # b /\ NeverReappears(a) /\ NeverReappears(b))
                   => RangesApart(s, a, b)

C10_Witness ==
    /\ Len(slot_in.frame_maps) = 3
    /\ \E s \in 1..Len(slot_st.slot_tracks) :
           \E a, b \in SlotIds(s) :
               /\ a # b /\ NeverReappears(a) /\ NeverReappears(b)
               /\ Len(slot_st.slot_tracks[s]) = 3
               /\ slot_st.slot_tracks[s][2].id = a
               /\ slot_st.slot_tracks[s][3].id = b
    /\ \E c \in PoolIds : ~NeverReappears(c)

\* the value a step-hold track has at time t: that of its last key at or
\* before t
StepHold(track, t) ==
    LET at == {k \in 1..Len(track.times) : track.times[k] <= t}
    IN  track.values[CHOOSE k \in at : \A j \in at : j <= k]

\* a track and its compression start with the same key and end with the
\* same key: linear interpolation gives the same value at both ends
SameEndKeys(times, values, track) ==
    /\ track.times[1] = times[1] /\ track.values[1] = values[1]
    /\ Last(track.times) = Last(times) /\ Last(track.values) = Last(values)

\* step-hold reading gives the same value at the first and the last time
SameEndHolds(times, values, track) ==
    /\ StepHold(track, times[1]) = StepHold(Track(times, values), times[1])
    /\ StepHold(track, Last(times)) = Last(values)

Compressed == call.fn = "compress" /\ ret.fn = "compress"

\* what C11 says of the four compressors that compare exactly or keep both
\* end samples
C11_ExactEnds ==
    /\ SameEndHolds(call.times, call.colors, ret.discrete_track)
    /\ SameEndHolds(call.times, call.points, ret.discrete_points)
    /\ SameEndKeys(call.times, call.values, ret.linear_scalar_track)
    /\ SameEndKeys(call.times, call.points, ret.points_with_forced)

\* C11 as stated: for a non-empty track with non-decreasing times each of
\* the five compressors gives, at the first and at the last original time,
\* exactly the original value (step-hold reading for the discrete and the
\* scalar tracks, linear interpolation for the linear and the point tracks).
C11_EndsPreserved ==
    Compressed =>
        /\ C11_ExactEnds
        /\ SameEndHolds(call.times, call.values, ret.scalar_track)

Padded == call.fn = "compress" /\ ret.fn = "pad"

\* key times of a padded track run from 0 to the loop duration without
\* going back
KeyTimesSpanLoop(track, total) ==
    /\ track.times[1] = 0
    /\ Last(track.times) = total
    /\ \A k \in 1..(Len(track.times) - 1) : track.times[k] <= track.times[k + 1]
    /\ \A k \in 1..Len(track.times) : 0 <= track.times[k] /\ track.times[k] <= total

\* C12: every track the encoder emits after compression and padding has
\* first key time 0, last key time the loop duration, and non-decreasing
\* key times inside [0, total], for every frame sequence and frame_duration
\* that SvgOutputProvider.encode accepts.
C12_KeyTimesSpanLoop ==
    Padded =>
        /\ KeyTimesSpanLoop(ret.discrete_track, ret.total_duration_ms)
        /\ KeyTimesSpanLoop(ret.discrete_points, ret.total_duration_ms)
        /\ KeyTimesSpanLoop(ret.scalar_track, ret.total_duration_ms)
        /\ KeyTimesSpanLoop(ret.linear_scalar_track, ret.total_duration_ms)
        /\ KeyTimesSpanLoop(ret.points_with_forced, ret.total_duration_ms)

Minified == call.fn = "minify" /\ ret.fn = "minify"

\* C13: for every input document, parsing the minified document with
\* entity expansion gives the same element tree as parsing the input:
\* every alias reference is declared and expands to the text it replaced.
C13_SameTree ==
    Minified => Parse(ret.out) = Parse(call.doc)

\* C14: minifying a minified document changes nothing: no further rewrite,
\* DOCTYPE or alias declaration.
C14_Idempotent ==
    (call.fn = "minify" /\ ret.fn = "minify_again") => ret.out = ret.once

\* no whole value and no prefix would be selected by the savings tests
NoPositiveSavings(doc) ==
    /\ SelectValues(doc.attrs, {doc.attrs[k].value : k \in 1..Len(doc.attrs)},
           [selected |-> <<>>, used_names |-> XML_PREDEFINED_ENTITIES,
            name_index |-> 0]).selected = <<>>
    /\ tl_best_prefix_entity_candidate(doc.attrs, to_compact_name(0)) = <<>>

\* C15: the output is never longer than the input, is strictly shorter
\* whenever an alias is declared, and is the input unchanged when no alias
\* has positive net savings.
C15_NeverLonger ==
    Minified =>
        /\ Size(ret.out) <= Size(call.doc)
        /\ ret.out.doctypes # <<>> => Size(ret.out) < Size(call.doc)
        /\ NoPositiveSavings(call.doc) => ret.out = call.doc

Encoded == call.fn = "encode" /\ ret.fn = "encode"
SvgDocument ==
    /\ Encoded
    /\ call.provider = "svg"
    /\ ret.result.returned
    /\ ret.result.bytes # <<>>

\* C16: every animation directive of an encoded SVG document has the same
\* dur, frame_count x frame_duration_ms with a frame_duration of 0 or less
\* taken as 1 ms, and repeats indefinitely.
C16_DurIsLoopLength ==
    SvgDocument =>
        \A k \in 1..Len(ret.result.bytes[1].directives) :
            LET directive == ret.result.bytes[1].directives[k]
            IN  /\ directive.dur =
                       Len(call.frames) *
                       (IF call.frame_duration <= 0 THEN 1 ELSE call.frame_duration)
                /\ directive.dur > 0
                /\ directive.repeatCount = "indefinite"

\* two frames with a bullet and frame_duration 0: three directives of 2 ms
C16_Witness ==
    /\ SvgDocument
    /\ Len(call.frames) = 2
    /\ call.frame_duration = 0
    /\ Len(ret.result.bytes[1].directives) = 3
    /\ \A k \in 1..3 : ret.result.bytes[1].directives[k].dur = 2

\* C17: for an empty frame sequence every encoder returns an empty byte
\* string and raises no error, whatever the frame_duration.
C17_EmptyGivesEmpty ==
    (Encoded /\ call.frames = <<>>) =>
        /\ ret.result.raised = "none"
        /\ ret.result.returned
        /\ ret.result.bytes = <<>>

\* the data URL encoder given no frames and a negative frame_duration
C17_Witness ==
    /\ Encoded
    /\ call.frames = <<>>
    /\ call.provider = "webp_dataurl"
    /\ call.frame_duration < 0
    /\ ret.result.bytes = <<>>

\* C18: SvgOutputProvider.encode raises ValueError and returns no bytes
\* whenever a frame's width or height differs from the first frame's, and
\* never raises it when all frames share one width and height.
C18_MixedDimensionsRaise ==
    (Encoded /\ call.provider = "svg" /\ call.frames # <<>>
       /\ \A k \in 1..Len(call.frames) : call.frames[k].type = "SvgTimelineFrame") =>
        LET mixed == \E k \in 2..Len(call.frames) :
                         \/ call.frames[k].width # call.frames[1].width
                         \/ call.frames[k].height # call.frames[1].height
        IN  /\ mixed => ret.result.raised = "ValueError" /\ ~ret.result.returned
            /\ ~mixed => ret.result.raised # "ValueError" /\ ret.result.returned

\* two timeline frames of one width and different heights
C18_Witness ==
    /\ Encoded
    /\ call.provider = "svg"
    /\ Len(call.frames) = 2
    /\ call.frames[1].type = "SvgTimelineFrame"
    /\ call.frames[2].type = "SvgTimelineFrame"
    /\ call.frames[1].width = call.frames[2].width
    /\ call.frames[1].height # call.frames[2].height
    /\ ret.result.raised = "ValueError"

\* C19: create_strategy(name) with a name outside {column, row, random} and
\* no default raises ValueError before any simulation state is created; a
\* name of the set never raises and yields the policy of that name.
C19_UnknownStrategyRaises ==
    /\ (call.fn = "create_strategy" /\ ret.fn = "create_strategy"
          /\ call.default = NoDefault) =>
           IF call.name \in {"column", "row", "random"}
           THEN /\ ret.result.raised = "none"
                /\ ret.result.bytes =
                       <<CASE call.name = "column" -> "ColumnStrategy"
                           [] call.name = "row" -> "RowStrategy"
                           [] OTHER -> "RandomStrategy">>
           ELSE ret.result.raised = "ValueError" /\ ~ret.result.returned
    /\ (call.fn = "generate_output" /\ ret.fn # "pending") =>
           IF call.name \in {"column", "row", "random"}
           THEN ret.result.raised = "none"
           ELSE /\ ret.fn = "resolve_strategy"
                /\ ret.result.raised = "CLIError"
                /\ ~ret.animator.created

\* an unknown name stopped the command line before the Animator
C19_Witness ==
    /\ call.fn = "generate_output"
    /\ call.name = "spiral"
    /\ ret.fn = "resolve_strategy"
    /\ ret.result.raised = "CLIError"
    /\ ~ret.animator.created

\* C20: for the grid of one week with levels [1,0,2,0,0,3,0] and a column
\* or row policy the timeline is non-empty, its final frame shows no live
\* enemy, and the final score is 300.
C20_OneWeekCleared ==
    (/\ inputs.contribution_data = OneWeek
     /\ inputs.strategy \in {"column", "row"}
     /\ HasGameState(Run)
     /\ Finished(Run)) =>
        /\ animator.pc = "done"
        /\ animator.rendered > 0
        /\ animator.last_frame.enemies = <<>>
        /\ game_state.score = 300

\* C21: the encoding is never longer than the one with the enemies grouped
\* per column only, nor than the one with the enemies grouped per row only.
C21_SmallerGrouping ==
    (call.fn = "encode_enemies" /\ ret.fn = "encode_enemies") =>
        /\ ret.adaptive <= ret.column_only
        /\ ret.adaptive <= ret.row_only

Ticked == HasGameState(Run) /\ animator'.ticks = animator.ticks + 1
                            /\ game_state'.raised = "no"
C23_SurvivorsUpdated ==
    [][Ticked =>
        /\ \A i \in 1..Len(game_state.bullets), j \in 1..Len(game_state'.bullets) :
              game_state.bullets[i].uid = game_state'.bullets[j].uid =>
                  game_state.bullets[i].y # game_state'.bullets[j].y
        /\ \A i \in 1..Len(game_state.explosions),
              j \in 1..Len(game_state'.explosions) :
              game_state.explosions[i].uid = game_state'.explosions[j].uid =>
                  game_state.explosions[i].elapsed_time
                      # game_state'.explosions[j].elapsed_time
        /\ \A i \in 1..Len(game_state.power_ups),
              j \in 1..Len(game_state'.power_ups) :
              game_state.power_ups[i].uid = game_state'.power_ups[j].uid =>
                  game_state.power_ups[i].y # game_state'.power_ups[j].y]_vars

\* C24: the bullets of one frame snapshot carry pairwise distinct ids, so
\* that keying the bullets of a frame by id loses none.
C24_DistinctBulletIds ==
    (HasGameState(Run) /\ animator.rendered > 0) =>
        \A i, j \in 1..Len(animator.last_frame.bullets) :
            i # j => animator.last_frame.bullets[i].id
                         # animator.last_frame.bullets[j].id

\* the frame map handed over by a SlotFrame step, its number (from 1) and
\* the frame map before it
NewFrame == Len(slot_in'.frame_maps)
NewFrameMap == slot_in'.frame_maps[NewFrame]
PrevFrameMap == IF NewFrame = 1 THEN {} ELSE slot_in.frame_maps[NewFrame - 1]

\* the slots (tracks, from 1) an id new in that frame can take: those empty
\* in the frame before and, when slots are reused within a frame, those
\* whose occupant is not in the new frame
FreeForNewFrame ==
    {s \in 1..Len(slot_st.slot_tracks) :
        LET occupant == slot_st.slot_tracks[s][NewFrame - 1].id
        IN  \/ occupant = None
            \/ slot_in.reuse_slots_within_frame /\ occupant \notin NewFrameMap}

\* C25: an id present in frame f and in frame f-1 keeps its slot; the ids
\* new in frame f take, in str order, the lowest-numbered free slots, and a
\* slot is created only when no slot is free.
C25_LowestFreeSlot ==
    [][LET new_ids == SortedByStr(NewFrameMap \ PrevFrameMap)
           free == [k \in 1..Cardinality(FreeForNewFrame) |->
                       CHOOSE s \in FreeForNewFrame :
                           Cardinality({t \in FreeForNewFrame : t < s}) = k - 1]
       IN  /\ \A id \in NewFrameMap \cap PrevFrameMap :
                 \E s \in 1..Len(slot_st.slot_tracks) :
                     /\ slot_st.slot_tracks[s][NewFrame - 1].id = id
                     /\ slot_st'.slot_tracks[s][NewFrame].id = id
           /\ \A k \in 1..Len(new_ids) :
                 LET s == IF k <= Len(free) THEN free[k]
                          ELSE Len(slot_st.slot_tracks) + (k - Len(free))
                 IN  /\ s <= Len(slot_st'.slot_tracks)
                     /\ slot_st'.slot_tracks[s][NewFrame].id = new_ids[k]
           /\ Len(slot_st'.slot_tracks)
                  = Len(slot_st.slot_tracks) + Max(0, Len(new_ids) - Len(free))]_vars

\* three slots; in the third frame one id keeps the middle slot and a new
\* id takes the lowest slot while the highest is free as well
C25_Witness ==
    /\ Len(slot_in.frame_maps) = 3
    /\ Len(slot_st.slot_tracks) = 3
    /\ slot_st.slot_tracks[2][2].id # None
    /\ slot_st.slot_tracks[2][3].id = slot_st.slot_tracks[2][2].id
    /\ slot_st.slot_tracks[1][2].id = None
    /\ slot_st.slot_tracks[3][2].id = None
    /\ slot_st.slot_tracks[1][3].id # None
    /\ slot_st.slot_tracks[3][3].id = None

\* slot s (from 1) holds an id in frame f and another id in frame f + 1
DirectHandover(s, f) ==
    /\ slot_st.slot_tracks[s][f].id # None
    /\ slot_st.slot_tracks[s][f + 1].id # None
    /\ slot_st.slot_tracks[s][f].id # slot_st.slot_tracks[s][f + 1].id

\* C26: in the mode used for bullets a slot never passes from one id to
\* another in consecutive frames: there is a frame between them in which
\* the slot is empty.  In the other mode a slot whose occupant is absent
\* from frame f is taken by an id new in frame f: when every slot is
\* occupied in frame f - 1, an occupant is absent from frame f and an id is
\* new in frame f, a slot passes from one id to another directly.
C26_DeferredReuse ==
    /\ slot_in.reuse_slots_within_frame = tl_bullet_elements_reuse =>
           \A s \in 1..Len(slot_st.slot_tracks) :
               \A f \in 1..(Len(slot_st.slot_tracks[s]) - 1) : ~DirectHandover(s, f)
    /\ slot_in.reuse_slots_within_frame = tl_explosion_elements_reuse =>
           \A f \in 1..(Len(slot_in.frame_maps) - 1) :
               (/\ slot_in.frame_maps[f] # {}
                /\ \A s \in 1..Len(slot_st.slot_tracks) :
                       f > Len(slot_st.slot_tracks[s])
                           \/ slot_st.slot_tracks[s][f].id # None
                           \/ \A g \in 1..f : slot_st.slot_tracks[s][g].id = None
                /\ slot_in.frame_maps[f] \ slot_in.frame_maps[f + 1] # {}
                /\ slot_in.frame_maps[f + 1] \ slot_in.frame_maps[f] # {})
                   => \E s \in 1..Len(slot_st.slot_tracks) : DirectHandover(s, f)

\* both modes on the same three frame maps: an id leaves after the first
\* frame and another arrives in the second; the bullet mode leaves the slot
\* empty for a frame and opens a second slot, the other mode hands it over
C26_Witness ==
    /\ Len(slot_in.frame_maps) = 3
    /\ slot_in.frame_maps[1] \cap slot_in.frame_maps[2] = {}
    /\ slot_in.frame_maps[1] # {} /\ slot_in.frame_maps[2] # {}
    /\ slot_in.frame_maps[3] # {}
    /\ slot_in.frame_maps[3] \cap slot_in.frame_maps[2] = {}
    /\ IF slot_in.reuse_slots_within_frame
       THEN DirectHandover(1, 1) /\ DirectHandover(1, 2)
       ELSE /\ slot_st.slot_tracks[1][2].id = None
            /\ slot_st.slot_tracks[1][3].id # None
            /\ Len(slot_st.slot_tracks) >= 2

\* the frame map of frame f (from 1), none before the first frame
FrameMapAt(f) == IF f = 0 THEN {} ELSE slot_in.frame_maps[f]
\* the largest of a set of numbers that holds 0
Most(counts) == CHOOSE most \in counts : \A count \in counts : count <= most

\* C27: when slots are reused within a frame, the slots created are as many
\* as the most objects of any single frame; with deferred reuse they are at
\* most the most distinct ids of two consecutive frames.
C27_PoolBoundedByConcurrency ==
    LET frames == 1..Len(slot_in.frame_maps)
        present == {0} \cup {Cardinality(FrameMapAt(f)) : f \in frames}
        around == {0} \cup {Cardinality(FrameMapAt(f - 1) \cup FrameMapAt(f)) :
                               f \in frames}
    IN  IF slot_in.reuse_slots_within_frame
        THEN Len(slot_st.slot_tracks) = Most(present)
        ELSE Len(slot_st.slot_tracks) <= Most(around)

\* three objects spawned over three frames on fewer than three slots
C27_Witness ==
    /\ Len(slot_in.frame_maps) = 3
    /\ Cardinality(FrameMapAt(1) \cup FrameMapAt(2) \cup FrameMapAt(3)) = 3
    /\ Len(slot_st.slot_tracks) < 3
    /\ Len(slot_st.slot_tracks) = (IF slot_in.reuse_slots_within_frame THEN 1 ELSE 2)

\* the x values of a compressed curve
CurveKept == IF ret.fn = "points"
             THEN [k \in 1..Len(ret.track.values) |-> ret.track.values[k][1]]
             ELSE ret.track.values

\* sample j lies within eps * span of the line through the kept samples a
\* and b around it, span the time between them
WithinEps(j, a, b) ==
    LET span == ret.track.times[b] - ret.track.times[a]
        interpolated == CurveKept[a] * (ret.track.times[b] - call.times[j])
                        + CurveKept[b] * (call.times[j] - ret.track.times[a])
    IN  Abs(call.values[j] * span - interpolated) <= EPS * span * span

\* C28: every dropped sample is reproduced by linear interpolation between
\* the nearest kept samples on either side with an error of at most eps
\* times the time between those two, for a run of dropped samples of any
\* length.
C28_DroppedWithinEps ==
    (call.fn = "compress_curve" /\ ret.fn \in {"linear_scalar", "points"}) =>
        \A j \in 1..Len(call.times) :
            \A a \in 1..(Len(ret.track.times) - 1) :
                (/\ ret.track.times[a] < call.times[j]
                 /\ call.times[j] < ret.track.times[a + 1])
                    => WithinEps(j, a, a + 1)

\* a compressed discrete track has no two consecutive keyframes of equal
\* value, strictly increasing times, and at every time the value of the
\* latest input sample of that time
DiscreteCompact(times, values, compact) ==
    /\ \A k \in 1..(Len(compact.values) - 1) :
           /\ compact.values[k] # compact.values[k + 1]
           /\ compact.times[k] < compact.times[k + 1]
    /\ \A k \in 1..Len(compact.times) :
           LET at == {i \in 1..Len(times) : times[i] = compact.times[k]}
           IN  compact.values[k] = values[CHOOSE i \in at : \A j \in at : j <= i]

\* C29: for non-decreasing times the output of the discrete compressors has
\* no two consecutive keyframes of equal value, its times are strictly
\* increasing, and of the samples of one timestamp the latest is kept.
C29_DiscreteCompact ==
    (call.fn = "compress" /\ ret.fn = "compress") =>
        /\ DiscreteCompact(call.times, call.colors, ret.discrete_track)
        /\ DiscreteCompact(call.times, call.points, ret.discrete_points)

\* sample i (from 1) of the input is a keyframe of the track
KeyframeOf(times, values, i, track) ==
    \E k \in 1..Len(track.times) :
        track.times[k] = times[i] /\ track.values[k] = values[i]

\* the first, the last and every forced sample within the input is kept
ForcedKept(times, values, forced_indices, track) ==
    \A i \in 1..Len(times) :
        (i = 1 \/ i = Len(times) \/ (i - 1) \in forced_indices)
            => KeyframeOf(times, values, i, track)

\* the samples (from 1) on either side of a change of opacity
EdgeAdjacent(opacity_values) ==
    {i \in 1..Len(opacity_values) :
        \/ i > 1 /\ opacity_values[i - 1] # opacity_values[i]
        \/ i < Len(opacity_values) /\ opacity_values[i] # opacity_values[i + 1]}

\* C30: the linear scalar and the point compressor keep index 0, the last
\* index and every forced index within the input, whatever its length; the
\* encoder forces the two samples on either side of every opacity
\* transition of a bullet slot, and the position track of the slot keeps
\* the keyframe of each of them.
C30_EdgeKeyframesKept ==
    /\ ret.fn = "compress_forced" =>
           /\ ForcedKept(call.times, call.values, call.forced_indices,
                         ret.linear_scalar_track)
           /\ ForcedKept(call.times,
                         [i \in 1..Len(call.values) |-> <<call.values[i], 0>>],
                         call.forced_indices, ret.points_with_forced)
    /\ (ret.fn = "bullet_slot" /\ ~ret.skipped) =>
           /\ \A i \in EdgeAdjacent(ret.opacity_values) :
                  (i - 1) \in ret.forced_indices
           /\ ForcedKept(ret.times, ret.position_values, ret.forced_indices,
                         ret.compressed)
           /\ \A i \in EdgeAdjacent(ret.opacity_values) :
                  KeyframeOf(ret.times, ret.position_values, i, ret.track)

\* the compact sequence a..z, A..Z, aa, ab, ..., ZZ, written out: name p
\* (from 1) of it
Letter(i) == IF i <= 26 THEN 96 + i ELSE 38 + i
CompactSequence(p) ==
    IF p <= 52 THEN <<Letter(p)>>
    ELSE <<Letter(1 + ((p - 53) \div 52)), Letter(1 + ((p - 53) % 52))>>

\* the reserved names of XML: lt, gt, amp, apos, quot
PredefinedNames ==
    { <<108, 116>>, <<103, 116>>, <<97, 109, 112>>, <<97, 112, 111, 115>>,
      <<113, 117, 111, 116>> }

\* name is the k-th name of the compact sequence that is not reserved
KthFreeName(name, k) ==
    \E p \in k..(k + Cardinality(PredefinedNames)) :
        /\ CompactSequence(p) = name
        /\ name \notin PredefinedNames
        /\ Cardinality({q \in 1..p : CompactSequence(q) \notin PredefinedNames}) = k

\* C31: every alias a minifier run declares gets a name that no alias
\* declared before it in the run has and that is not a predefined XML
\* entity name; the k-th alias declared gets the k-th name of the compact
\* sequence a..z, A..Z, aa, ab, ... that is not predefined, so no name is
\* repeated and none is used up by a value or prefix that is not declared.
C31_AliasNames ==
    [][ (ret.fn = "names" /\ Len(ret'.selected) > Len(ret.selected)) =>
            LET name == ret'.selected[Len(ret'.selected)]
            IN  /\ Len(ret'.selected) = Len(ret.selected) + 1
                /\ SubSeq(ret'.selected, 1, Len(ret.selected)) = ret.selected
                /\ \A k \in 1..Len(ret.selected) : ret.selected[k] # name
                /\ name \notin PredefinedNames
                /\ KthFreeName(name, Len(ret'.selected)) ]_vars

\* more aliases than there are names up to lt: one and two letter names,
\* gt and lt passed by, values and prefixes that were not declared
C31_Witness ==
    /\ ret.fn = "names" /\ ret.pc = "done"
    /\ call.skip_every = 3
    /\ Len(call.prefixes) = 3
    /\ \E k \in 1..Len(ret.selected) : ret.selected[k] = <<108, 117>>

\* the columns that hold a live enemy, and the distance of a column from
\* the ship in cells
LiveColumns == {call.gs.enemies[k].x : k \in 1..Len(call.gs.enemies)}
ShipDistance(column) == Abs(column - call.gs.ship.x) \div Cell(call.fps)

\* the weight of a column at a distance of whole cells
StatedWeight(distance) ==
    CASE distance = 0 -> 10
      [] distance \in 1..3 -> 100
      [] OTHER -> 1

\* of the RngModulus equally likely values of the generator, those that give
\* the k-th candidate
ValuesChoosing(k) ==
    {rng \in 0..(RngModulus - 1) :
        RandomStrategy_choose_target_column(call.gs, ret.candidate_columns,
                                            rng, call.fps)
            = ret.candidate_columns[k]}

\* the share of the k-th candidate is its weight in the sum of the weights,
\* to the nearest value of the generator below or above
WeightedShare(k) ==
    LET weights == [j \in 1..Len(ret.candidate_columns) |->
                       StatedWeight(ShipDistance(ret.candidate_columns[j]))]
        total == SumTo(weights, Len(weights))
        share == Cardinality(ValuesChoosing(k))
    IN  /\ share * total > weights[k] * RngModulus - total
        /\ share * total < weights[k] * RngModulus + total

\* C32: the candidates of a choice are columns that hold a live enemy, at
\* most 8 of them and none farther from the ship than a live column left
\* out; a candidate is drawn with weight 10 at distance 0, 100 at distance
\* 1 to 3 and 1 at distance 4 or more; the column chosen holds a live enemy
\* and its lowest enemy is found.
C32_WeightedNearestColumns ==
    /\ ret.fn = "choose" =>
           /\ Len(ret.candidate_columns) <= 8
           /\ Len(ret.candidate_columns) = Min(8, Cardinality(LiveColumns))
           /\ \A k \in 1..Len(ret.candidate_columns) :
                  /\ ret.candidate_columns[k] \in LiveColumns
                  /\ \A j \in 1..(k - 1) :
                         ret.candidate_columns[j] # ret.candidate_columns[k]
                  /\ \A c \in LiveColumns :
                         (\A j \in 1..Len(ret.candidate_columns) :
                              ret.candidate_columns[j] # c)
                             => ShipDistance(c) >= ShipDistance(ret.candidate_columns[k])
                  /\ WeightedShare(k)
           /\ ret.target_column \in LiveColumns
    /\ ret.fn = "lowest" =>
           /\ ret.found
           /\ call.gs.enemies[ret.target_enemy].x = ret.target_column
           /\ \A k \in 1..Len(call.gs.enemies) :
                  call.gs.enemies[k].x = ret.target_column
                      => call.gs.enemies[k].y <= call.gs.enemies[ret.target_enemy].y

\* nine columns of enemies, the ship on one of them: a column of weight 10,
\* six of weight 100 and one of weight 1 are the candidates, and the lowest
\* enemy of the column chosen, one cell from the ship, is found
C32_Witness ==
    /\ ret.fn = "lowest"
    /\ Cardinality(LiveColumns) > 8
    /\ call.gs.ship.x = 4 * Cell(call.fps)
    /\ ret.target_column = 3 * Cell(call.fps)
    /\ call.gs.enemies[ret.target_enemy].x = ret.target_column

\* the step is a next() of RandomStrategy.generate_actions that chooses a
\* column, a choice having been made before
ChoosesAgain ==
    /\ inputs.strategy = "random"
    /\ HasGameState(Run)
    /\ animator.pc = "for"
    /\ animator.gen.choices > 0
    /\ animator'.gen.choices > animator.gen.choices

\* the step is a next() of RandomStrategy.generate_actions that chooses
Chooses ==
    /\ inputs.strategy = "random"
    /\ HasGameState(Run)
    /\ animator.pc = "for"
    /\ animator'.gen.choices > animator.gen.choices

\* the health of the live enemies of a column, in all
ColumnHealth(column) ==
    SumTo([k \in 1..Len(game_state.enemies) |->
              IF game_state.enemies[k].x = column
              THEN game_state.enemies[k].health ELSE 0],
          Len(game_state.enemies))

\* C33: a choice of RandomStrategy issues as many shots at the column it
\* chooses as the enemies of the column have health in all, and when it
\* chooses again the column it chose before holds no live enemy.
C33_ColumnEmptiedBeforeNextChoice ==
    [][ /\ Chooses =>
              animator'.gen.shots_left + 1 = ColumnHealth(animator'.gen.target_column)
        /\ ChoosesAgain =>
              \A k \in 1..Len(game_state.enemies) :
                  game_state.enemies[k].x # animator.gen.target_column ]_vars

\* C34: the random values of the world (the stars placed at the start and
\* placed again on wrap) and those of the policy are two streams fixed by
\* the master seed: two runs of the same seed have a game state, show the
\* same stars after the same number of ticks whatever the policy has drawn,
\* and give the policy the same value after the same number of its draws
\* whatever the world has drawn.
C34_SeparateSeededStreams ==
    /\ animator.pc # "raised" \/ HasGameState(Run)
    /\ (/\ HasGameState(Run) /\ HasGameState(twin)
        /\ twin.inputs.seed = inputs.seed
        /\ twin.animator.ticks = animator.ticks)
           => twin.game_state.starfield = game_state.starfield
    /\ (/\ twin.inputs.seed = inputs.seed
        /\ twin.animator.gen.choices = animator.gen.choices)
           => twin.animator.gen.rng = animator.gen.rng

\* int() of a coordinate, in cells
IntegerCell(length) == length \div Cell(inputs.fps)

\* C35: Bullet._check_collision finds an enemy for a ship bullet exactly
\* when an enemy is in the integer column of the bullet and the bullet's y
\* has reached or passed the enemy's y, the boss with its fractional x
\* included.
C35_HitInIntegerColumn ==
    HasGameState(Run) =>
        \A i \in 1..Len(game_state.bullets) :
            game_state.bullets[i].kind = "Bullet" =>
                ( Bullet_check_collision(game_state, game_state.bullets[i].x,
                                         game_state.bullets[i].y) # 0
                  <=> \E k \in 1..Len(game_state.enemies) :
                          /\ IntegerCell(game_state.enemies[k].x)
                                 = IntegerCell(game_state.bullets[i].x)
                          /\ game_state.bullets[i].y <= game_state.enemies[k].y )

\* C36: a tick in which boss bullets reach the ship ends without an error
\* from a second removal of a bullet; each hit takes 1 from the ship's
\* health, which never goes below 0; the ship is destroyed exactly when its
\* health is 0, and once it is destroyed later hits change neither its
\* health nor is_destroyed.
C36_ShipHitOnce ==
    [][ (HasGameState(Run) /\ animator'.ticks > animator.ticks) =>
            /\ game_state'.raised = "no"
            /\ game_state'.ship.health >= 0
            /\ game_state'.ship.health <= game_state.ship.health
            /\ game_state'.ship.is_destroyed <=> game_state'.ship.health = 0
            /\ game_state.ship.is_destroyed =>
                   game_state'.ship.health = game_state.ship.health ]_vars

\* C37 (shots and the wait for them).  A step that calls shoot() starts in a
\* state where the ship stands at the x of the action, is not moving, and
\* has shoot_cooldown <= 0 or rapid fire active; without rapid fire the
\* simulated time since the shot before it is at least SHIP_SHOOT_COOLDOWN;
\* and a timeline at the test of "while can_take_action() is False" leaves
\* that loop.
ShotStep == HasGameState(Run) /\ animator'.shots > animator.shots

ShotAllowed ==
    /\ game_state.ship.x = animator.action.x
    /\ game_state.ship.x = game_state.ship.target_x
    /\ \/ game_state.ship.shoot_cooldown <= 0
       \/ game_state.ship.is_rapid_fire_active

ShotsApart ==
    (~game_state.ship.is_rapid_fire_active /\ animator.last_shot_tick # None) =>
        (animator.ticks - animator.last_shot_tick) * TICK
            >= SHIP_SHOOT_COOLDOWN * inputs.fps

FrameStep == HasGameState(Run) /\ animator'.rendered = animator.rendered + 1

SettleStep == FrameStep /\ animator'.settle > animator.settle

FrameShown(k) ==
    /\ animator'.ticks = k
    /\ animator'.ticks = animator.ticks + (IF k = 0 THEN 0 ELSE 1)
    /\ animator'.last_frame.time_ms = k * (1000 \div inputs.fps)
    /\ animator'.last_frame =
           snapshot_svg_timeline_frame(game_state', k * (1000 \div inputs.fps))

SettleShown ==
    /\ animator'.settle <= SETTLE_FRAMES
    /\ animator'.ticks = animator.ticks
    /\ game_state' = game_state
    /\ animator'.last_frame.time_ms =
           animator.rendered * (1000 \div inputs.fps)
    /\ animator'.last_frame =
           [animator.last_frame EXCEPT !.time_ms = animator'.last_frame.time_ms]

C38_OneTickPerFrame ==
    [][ /\ (FrameStep /\ ~SettleStep) => FrameShown(animator.rendered)
        /\ SettleStep => SettleShown
        /\ (HasGameState(Run) /\ animator'.ticks > animator.ticks
               /\ animator'.rendered = animator.rendered)
              => animator'.pc \in {"done", "raised"} ]_vars

\* an uncapped timeline of at least 2 ticks has yielded its 5 settle frames
C38_Witness ==
    /\ HasGameState(Run)
    /\ inputs.max_frames = None
    /\ animator.ticks >= 2
    /\ animator.settle = SETTLE_FRAMES
    /\ animator.rendered = animator.ticks + 1 + SETTLE_FRAMES
    /\ animator.last_frame.time_ms
           = (animator.rendered - 1) * (1000 \div inputs.fps)

\* C39 (slot tracks lose and duplicate nothing).  After every frame map,
\* every slot track has one entry per frame map; for every frame f and
\* every id of frame_maps[f] exactly one track holds the payload of id at
\* index f; and every other entry at index f is None.
TracksHolding(f, id) ==
    {s \in 1..Len(slot_st.slot_tracks) :
        slot_st.slot_tracks[s][f] = Payload(id, f - 1)}

C39_NothingLostOrDuplicated ==
    /\ \A s \in 1..Len(slot_st.slot_tracks) :
           Len(slot_st.slot_tracks[s]) = Len(slot_in.frame_maps)
    /\ \A f \in 1..Len(slot_in.frame_maps) :
           /\ \A id \in slot_in.frame_maps[f] :
                  Cardinality(TracksHolding(f, id)) = 1
           /\ \A s \in 1..Len(slot_st.slot_tracks) :
                  \/ slot_st.slot_tracks[s][f] = NoPayload
                  \/ \E id \in slot_in.frame_maps[f] : s \in TracksHolding(f, id)

\* three frame maps in which a slot is reused by a second id, a track
\* starts after the first frame and an id is absent for a frame
C39_Witness ==
    /\ Len(slot_in.frame_maps) = MaxSlotFrames
    /\ Len(slot_st.slot_tracks) >= 2
    /\ \E s \in 1..Len(slot_st.slot_tracks) :
           /\ slot_st.slot_tracks[s][1] = NoPayload
           /\ slot_st.slot_tracks[s][2] # NoPayload
    /\ \E s \in 1..Len(slot_st.slot_tracks) :
           /\ slot_st.slot_tracks[s][1] # NoPayload
           /\ slot_st.slot_tracks[s][3] # NoPayload
           /\ slot_st.slot_tracks[s][3].id # slot_st.slot_tracks[s][1].id

\* C40 (the lowest enemy of the column is hit).  In every tick, an enemy
\* that a ship bullet damages has no live enemy of the same column below it
\* (same x, larger y) at the time of the impact: the enemies have moved
\* before the bullets do, and an enemy that is in the list after the tick
\* was alive at the impact.
EnemyBelow(hit, enemy) ==
    /\ enemy.enemy_id # hit.enemy_id
    /\ enemy.x = hit.x
    /\ enemy.y > hit.y

C40_LowestEnemyHit ==
    [][ (HasGameState(Run) /\ animator'.ticks > animator.ticks) =>
            \A k \in 1..Len(game_state'.hits) :
                \A j \in 1..Len(game_state'.enemies) :
                    ~EnemyBelow(game_state'.hits[k], game_state'.enemies[j]) ]_vars

====
